---- MODULE Spec2Model ----
(***************************************************************************)
(* Model of the page-object factory (PageFactory) and of the               *)
(* authentication fixtures of the EBMS end-to-end test suite.              *)
(*                                                                         *)
(* Part 1: the static page-object cache of one worker process, driven by   *)
(* a sequence of tests that each receive a fresh browser page handle.      *)
(* Part 2: the life cycle of the authentication fixtures and of the        *)
(* page-object fixtures built on them, around the test bodies of one       *)
(* worker process, with logoutUser unfolded into its awaited steps.        *)
(* Part 3: the test-data generators, driven by the draws of Math.random.   *)
(* Part 4: the page objects: createPageByUrl and the copies of the cache,   *)
(* createPage under interleaved tasks, the banner readers of BasePage, the *)
(* environment configuration, and the form fields of LoginPage and         *)
(* CreateUserPage.                                                         *)
(***************************************************************************)
EXTENDS Integers, Sequences, FiniteSets, TLC

(* ------------------------------ bounds -------------------------------- *)

\* Number of tests the worker process runs one after the other.
MaxTests == 2

\* Number of page objects that are constructed in one worker process.
MaxInstances == 2

\* Resolution of Math.random(): the draws are the multiples of 1 / RandDen.
RandDen == 20

\* Page-object classes handed to the generic createPage.
Classes == {"LoginPage", "DashboardPage"}

\* Values page.url() takes: a fresh page, and screens of the application.
BlankUrl == "about:blank"

LoginUrl == "http://localhost:3000/login"

DashboardUrl == "http://localhost:3000/dashboard"

\* The URLs at which the tests of the factory model call the factory.
Urls == {BlankUrl, LoginUrl}

\* The URLs the page is at around the fixtures.
ScreenUrls == {BlankUrl, LoginUrl, DashboardUrl}

RootUrl == "http://localhost:3000/"

HomeUrl == "http://localhost:3000/home"

MainUrl == "http://localhost:3000/main"

\* Where the application leaves the page after the login form was submitted
\* (LoginUrl: the credentials were rejected).
LandingUrls == {LoginUrl, DashboardUrl, RootUrl, HomeUrl, MainUrl}

\* The characters of the URLs, for the regular expressions tested on them.
urlChars ==
    [u \in ScreenUrls \cup LandingUrls |->
        CASE u = BlankUrl -> <<"a", "b", "o", "u", "t", ":", "b", "l", "a", "n", "k">>
          [] u = LoginUrl -> <<"h", "t", "t", "p", ":", "/", "/", "l", "o", "c", "a", "l", "h", "o", "s", "t", ":", "3", "0", "0", "0", "/", "l", "o", "g", "i", "n">>
          [] u = DashboardUrl -> <<"h", "t", "t", "p", ":", "/", "/", "l", "o", "c", "a", "l", "h", "o", "s", "t", ":", "3", "0", "0", "0", "/", "d", "a", "s", "h", "b", "o", "a", "r", "d">>
          [] u = RootUrl -> <<"h", "t", "t", "p", ":", "/", "/", "l", "o", "c", "a", "l", "h", "o", "s", "t", ":", "3", "0", "0", "0", "/">>
          [] u = HomeUrl -> <<"h", "t", "t", "p", ":", "/", "/", "l", "o", "c", "a", "l", "h", "o", "s", "t", ":", "3", "0", "0", "0", "/", "h", "o", "m", "e">>
          [] u = MainUrl -> <<"h", "t", "t", "p", ":", "/", "/", "l", "o", "c", "a", "l", "h", "o", "s", "t", ":", "3", "0", "0", "0", "/", "m", "a", "i", "n">>]

VARIABLES
    pageInstances,  \* PageFactory.pageInstances: pageKey -> instance reference
    instances,      \* the heap: reference i is instances[i] = [cls, page]
    test,           \* the running test; its browser page handle is `test`
    url,            \* page.url() of the running test's page
    last,           \* the last factory/page operation and what it returned
    born,           \* history: born[i] = key and test at construction of i
    cleared,        \* history: references that were cached when clearCache ran
    removed,        \* history: references removePageInstance deleted
    fixture,        \* the fixture the test declared
    fpc,            \* where the fixture function stands
    session,        \* TRUE while the browser context holds a logged-in session
    body,           \* the test body: notStarted, running, passed, failed
    logoutCalls,    \* how often logoutUser was called for this test
    logout,         \* the running/last logoutUser call: errors raised, warnings
    error,          \* the error that left the fixture function, or "none"
    outcome,        \* the test's outcome as the runner reports it
    isLoggedIn,     \* authenticatedPage's const isLoggedIn: unset, true, false
    po,             \* the page object the derived fixture got from the factory
    done,           \* history: the setup steps of this test that returned
    call,           \* the last call of a test-data generator: function, arguments
    ret,            \* what that call returned
    env,            \* process.env of the worker process
    tasks,          \* the asynchronous tasks of a test that call the factory
    copy,           \* the Map a caller holds from getCachedInstances()
    context,        \* page.context(): the options of the browser context
    dom,            \* the document of the page: fields, checkbox, banners
    helper          \* the last page-object method call and how it ended

cacheVars == <<pageInstances, instances, test, last, born, cleared, removed>>

fixtureVars == <<fixture, fpc, session, body, logoutCalls, logout, error, outcome,
                 isLoggedIn, po, done>>

dataVars == <<call, ret>>

pageVars == <<env, tasks, copy, context, dom, helper>>

vars == <<cacheVars, url, fixtureVars, dataVars, pageVars>>

(* ------------------------- PageFactory (pure) -------------------------- *)

\* The empty Map.
EmptyMap == [k \in {} |-> 0]

Range(f) == {f[k] : k \in DOMAIN f}

\* const pageKey = `${pageType.name}-${page.url()}`
pageKey(pageType, u) == pageType \o "-" \o u

\* new pageType(page): BasePage's constructor stores the handle it is given.
construct(pageType, p) == [cls |-> pageType, page |-> p]

\* A faulty variant of createPage: the entry is set before the constructor has
\* returned, so a throwing constructor leaves a key behind.
createPageSetFirst(cache, heap, pageType, p, u, ctorThrows) ==
    LET key == pageKey(pageType, u) IN
    IF key \notin DOMAIN cache
    THEN IF ctorThrows
         THEN [cache |-> cache @@ (key :> Len(heap) + 1),
               heap |-> Append(heap, construct(pageType, p)),
               result |-> 0, threw |-> TRUE, ctorRuns |-> 1]
         ELSE [cache |-> cache @@ (key :> Len(heap) + 1),
               heap |-> Append(heap, construct(pageType, p)),
               result |-> Len(heap) + 1, threw |-> FALSE,
               ctorRuns |-> 1]
    ELSE [cache |-> cache, heap |-> heap, result |-> cache[key], threw |-> FALSE,
          ctorRuns |-> 0]

\* A faulty variant of createPage: no lookup, every call constructs and overwrites.
createPageAlwaysNew(cache, heap, pageType, p, u, ctorThrows) ==
    LET key == pageKey(pageType, u) IN
    IF ctorThrows
    THEN [cache |-> cache, heap |-> heap, result |-> 0, threw |-> TRUE, ctorRuns |-> 1]
    ELSE [cache |-> [k \in DOMAIN cache \cup {key} |->
                        IF k = key THEN Len(heap) + 1 ELSE cache[k]],
          heap |-> Append(heap, construct(pageType, p)),
          result |-> Len(heap) + 1, threw |-> FALSE,
               ctorRuns |-> 1]

\* A faulty variant of createPage: entries of the same class made at another URL are
\* dropped when the page is found at a new URL (the cache follows navigation).
createPageRekey(cache, heap, pageType, p, u, ctorThrows) ==
    LET key == pageKey(pageType, u)
        kept == {k \in DOMAIN cache :
                    \A v \in Urls : k = pageKey(pageType, v) => v = u}
        base == [k \in kept |-> cache[k]]
    IN
    IF key \notin DOMAIN cache
    THEN IF ctorThrows
         THEN [cache |-> cache, heap |-> heap, result |-> 0, threw |-> TRUE, ctorRuns |-> 1]
         ELSE [cache |-> base @@ (key :> Len(heap) + 1),
               heap |-> Append(heap, construct(pageType, p)),
               result |-> Len(heap) + 1, threw |-> FALSE,
               ctorRuns |-> 1]
    ELSE [cache |-> cache, heap |-> heap, result |-> cache[key], threw |-> FALSE,
          ctorRuns |-> 0]

\* A faulty variant of createPage: the key is the URL alone, the class is left out.
createPageUrlKey(cache, heap, pageType, p, u, ctorThrows) ==
    LET key == pageKey("", u) IN
    IF key \notin DOMAIN cache
    THEN IF ctorThrows
         THEN [cache |-> cache, heap |-> heap, result |-> 0, threw |-> TRUE, ctorRuns |-> 1]
         ELSE [cache |-> cache @@ (key :> Len(heap) + 1),
               heap |-> Append(heap, construct(pageType, p)),
               result |-> Len(heap) + 1, threw |-> FALSE,
               ctorRuns |-> 1]
    ELSE [cache |-> cache, heap |-> heap, result |-> cache[key], threw |-> FALSE,
          ctorRuns |-> 0]

\* PageFactory.createPage(pageType, page), with u = page.url() and the
\* constructor's outcome as inputs.  The constructor runs only on a miss; when
\* it throws, line 30 (set) and line 33 (get) are never reached.
createPage(cache, heap, pageType, p, u, ctorThrows) ==
    LET key == pageKey(pageType, u) IN
    IF key \notin DOMAIN cache
    THEN IF ctorThrows
         THEN [cache |-> cache, heap |-> heap, result |-> 0, threw |-> TRUE, ctorRuns |-> 1]
         ELSE [cache |-> cache @@ (key :> Len(heap) + 1),
               heap |-> Append(heap, construct(pageType, p)),
               result |-> Len(heap) + 1, threw |-> FALSE,
               ctorRuns |-> 1]
    ELSE [cache |-> cache, heap |-> heap, result |-> cache[key], threw |-> FALSE,
          ctorRuns |-> 0]

\* A faulty variant of clearCache: a copy of the Map is cleared, the static Map stays.
clearCacheOnCopy(cache) == cache

\* PageFactory.clearCache(): this.pageInstances.clear()
clearCache(cache) == EmptyMap

\* PageFactory.removePageInstance(pageType, url): delete(`${pageType}-${url}`)
removePageInstance(cache, pageType, u) ==
    [k \in DOMAIN cache \ {pageKey(pageType, u)} |-> cache[k]]

(* ------------------------------ actions -------------------------------- *)

NoOp == [op |-> "init", cls |-> "", page |-> 0, key |-> "", result |-> 0,
         threw |-> FALSE, ctorRuns |-> 0]

\* An optional value (a property that may be undefined): <<>> or <<value>>.
Undefined == <<>>

Some(s) == <<s>>

\* The environment variables getEnvironmentConfig reads.
EnvNames == {"BASE_URL", "ADMIN_BASE_URL", "TEST_EMAIL", "TEST_PASSWORD",
             "TEST_TIMEOUT", "NAVIGATION_TIMEOUT", "ACTION_TIMEOUT", "NODE_ENV"}

\* No variable is set.
NoEnv == [n \in EnvNames |-> Undefined]

\* No document was loaded and no method of a page object was called.
NoDom == [loaded |-> FALSE]

NoHelper == [fn |-> "none"]

\* The test runs no task, holds no copy of the cache and touches no form.
PageIdle ==
    /\ env = NoEnv
    /\ tasks = <<>>
    /\ copy = Undefined
    /\ context = [baseURL |-> Undefined]
    /\ dom = NoDom
    /\ helper = NoHelper

\* No fixture is declared: the tests use the runner's page directly.
FixtureIdle ==
    /\ fixture = "none"
    /\ fpc = "Uninitialized"
    /\ session = FALSE
    /\ body = "notStarted"
    /\ logoutCalls = 0
    /\ logout = [raised |-> FALSE, warned |-> FALSE]
    /\ error = "none"
    /\ outcome = "none"
    /\ isLoggedIn = "unset"
    /\ po = 0
    /\ done = {}

Init ==
    /\ FixtureIdle
    /\ pageInstances = EmptyMap
    /\ instances = <<>>
    /\ test = 1
    /\ url = BlankUrl
    /\ last = NoOp
    /\ born = <<>>
    /\ cleared = {}
    /\ removed = {}
    /\ call = [fn |-> "none", args |-> <<>>, seed |-> [a |-> 0, b |-> 0], returned |-> FALSE]
    /\ ret = <<>>
    /\ PageIdle

\* A test calls createPage(pageType, page) on its own page.
CreatePage(pageType, ctorThrows) ==
    LET r == createPage(pageInstances, instances, pageType, test, url, ctorThrows)
        key == pageKey(pageType, url)
    IN
    /\ Len(r.heap) <= MaxInstances
    /\ pageInstances' = r.cache
    /\ instances' = r.heap
    /\ born' = IF Len(r.heap) > Len(instances)
               THEN Append(born, [key |-> key, test |-> test])
               ELSE born
    /\ last' = [op |-> "createPage", cls |-> pageType, page |-> test, key |-> key,
                result |-> r.result, threw |-> r.threw, ctorRuns |-> r.ctorRuns]
    /\ UNCHANGED <<test, url, cleared, removed, fixtureVars, dataVars, pageVars>>

\* The page navigates (page.goto, BasePage.navigateTo, a redirect).
Goto(u) ==
    /\ u # url
    /\ url' = u
    /\ last' = [NoOp EXCEPT !.op = "goto"]
    /\ UNCHANGED <<pageInstances, instances, test, born, cleared, removed, fixtureVars, dataVars, pageVars>>

\* PageFactory.clearCache()
ClearCache ==
    /\ pageInstances' = clearCache(pageInstances)
    /\ cleared' = cleared \cup Range(pageInstances)
    /\ last' = [NoOp EXCEPT !.op = "clearCache"]
    /\ UNCHANGED <<instances, test, url, born, removed, fixtureVars, dataVars, pageVars>>

\* PageFactory.removePageInstance(pageType, u)
RemovePageInstance(pageType, u) ==
    /\ pageInstances' = removePageInstance(pageInstances, pageType, u)
    /\ removed' = removed \cup {pageInstances[k] :
                        k \in DOMAIN pageInstances \cap {pageKey(pageType, u)}}
    /\ last' = [NoOp EXCEPT !.op = "removePageInstance"]
    /\ UNCHANGED <<instances, test, url, born, cleared, fixtureVars, dataVars, pageVars>>

\* The test ends and the worker process starts its next test: the runner hands
\* it a fresh page (at about:blank); the static cache lives on in the process.
NextTest ==
    /\ test < MaxTests
    /\ test' = test + 1
    /\ url' = BlankUrl
    /\ last' = [NoOp EXCEPT !.op = "nextTest"]
    /\ UNCHANGED <<pageInstances, instances, born, cleared, removed, fixtureVars, dataVars, pageVars>>

Next ==
    \/ \E c \in Classes, t \in BOOLEAN : CreatePage(c, t)
    \/ \E u \in Urls : Goto(u)
    \/ ClearCache
    \/ \E c \in Classes, u \in Urls : RemovePageInstance(c, u)
    \/ NextTest

Spec == Init /\ [][Next]_vars

(* ------------------------------ strings ------------------------------- *)

\* Strings are sequences of characters.  An optional value (a parameter or
\* property that may be undefined) is <<>> when undefined and <<s>> when it
\* is the string s (Undefined and Some above).
\* JavaScript truthiness of an optional string: undefined and '' are falsy.
Truthy(o) == o # Undefined /\ o[1] # <<>>

UpperCase == <<"A", "B", "C", "D", "E", "F", "G", "H", "I", "J", "K", "L", "M", "N", "O", "P", "Q", "R", "S", "T", "U", "V", "W", "X", "Y", "Z">>

LowerCase == <<"a", "b", "c", "d", "e", "f", "g", "h", "i", "j", "k", "l", "m", "n", "o", "p", "q", "r", "s", "t", "u", "v", "w", "x", "y", "z">>

DigitChars == <<"0", "1", "2", "3", "4", "5", "6", "7", "8", "9">>

\* \s of a regular expression, as far as the pools go.
Whitespace == {" "}

\* String.prototype.toLowerCase
toLowerCase(s) ==
    [j \in 1..Len(s) |->
        IF \E n \in 1..Len(UpperCase) : UpperCase[n] = s[j]
        THEN LowerCase[CHOOSE n \in 1..Len(UpperCase) : UpperCase[n] = s[j]]
        ELSE s[j]]

IsSpace(c) == c \in Whitespace

(* --------------------- environment configuration ---------------------- *)

\* The two getEnvironmentConfig of the repository: the one with the UAT
\* defaults and the one that also reads ADMIN_BASE_URL.
ConfigVariants == {"uat", "admin"}

\* a || b on optional strings: b when a is undefined or empty.
orElse(o, empty, d) == IF o # Undefined /\ o[1] # empty THEN o[1] ELSE d

\* A number of JavaScript: an integer or NaN.
Num(n) == [nan |-> FALSE, n |-> n]

NaN == [nan |-> TRUE, n |-> 0]

digitValue(c) == CHOOSE d \in 0..9 : DigitChars[d + 1] = c

\* parseInt(s): the value of the longest prefix of decimal digits (after
\* leading white space), NaN when there is none.
RECURSIVE parseDigits(_, _, _)
parseDigits(s, i, acc) ==
    IF i > Len(s) \/ s[i] \notin Range(DigitChars)
    THEN acc
    ELSE parseDigits(s, i + 1, acc * 10 + digitValue(s[i]))

RECURSIVE skipSpaces(_, _)
skipSpaces(s, i) == IF i <= Len(s) /\ IsSpace(s[i]) THEN skipSpaces(s, i + 1) ELSE i

parseInt(s) ==
    LET i == skipSpaces(s, 1) IN
    IF i > Len(s) \/ s[i] \notin Range(DigitChars)
    THEN NaN
    ELSE Num(parseDigits(s, i, 0))

DefaultTimeout == <<"3", "0", "0", "0", "0">>

\* const requiredEnvVars = { ... }: every property is process.env.X || default.
requiredEnvVars(variant, e) ==
    IF variant = "uat"
    THEN [baseUrl |-> orElse(e["BASE_URL"], "", "https://omi-uat.smop.asia"),
          adminBaseUrl |-> "",
          testEmail |-> orElse(e["TEST_EMAIL"], "", "productdevelopmentteam@smop.asia-uat"),
          testPassword |-> orElse(e["TEST_PASSWORD"], "", "SM0P4ppDevUAT!"),
          testTimeout |-> parseInt(orElse(e["TEST_TIMEOUT"], <<>>, DefaultTimeout)),
          navigationTimeout |-> parseInt(orElse(e["NAVIGATION_TIMEOUT"], <<>>, DefaultTimeout)),
          actionTimeout |-> parseInt(orElse(e["ACTION_TIMEOUT"], <<>>, DefaultTimeout)),
          nodeEnv |-> orElse(e["NODE_ENV"], "", "test")]
    ELSE [baseUrl |-> orElse(e["BASE_URL"], "", "http://localhost:3000"),
          adminBaseUrl |-> orElse(e["ADMIN_BASE_URL"], "", "http://localhost:8001"),
          testEmail |-> orElse(e["TEST_EMAIL"], "", "test@example.com"),
          testPassword |-> orElse(e["TEST_PASSWORD"], "", "password123"),
          testTimeout |-> parseInt(orElse(e["TEST_TIMEOUT"], <<>>, DefaultTimeout)),
          navigationTimeout |-> parseInt(orElse(e["NAVIGATION_TIMEOUT"], <<>>, DefaultTimeout)),
          actionTimeout |-> parseInt(orElse(e["ACTION_TIMEOUT"], <<>>, DefaultTimeout)),
          nodeEnv |-> orElse(e["NODE_ENV"], "", "development")]

\* The properties the function validates with `if (!requiredEnvVars.x) throw`.
validated(variant) ==
    IF variant = "uat" THEN {"baseUrl", "testEmail", "testPassword"}
    ELSE {"baseUrl", "adminBaseUrl"}

\* getEnvironmentConfig(): the record is built first, then validated, then
\* returned (the UAT variant has no adminBaseUrl property: it is '' here).
getEnvironmentConfig(variant, e) ==
    LET r == requiredEnvVars(variant, e) IN
    IF \E f \in validated(variant) : r[f] = ""
    THEN [threw |-> TRUE, value |-> r]
    ELSE [threw |-> FALSE, value |-> r]

\* The environments the configuration is read in.
Envs ==
    [BASE_URL : {Undefined, Some(""), Some("https://staging.example.com")},
     ADMIN_BASE_URL : {Undefined, Some("http://admin.local:9000")},
     TEST_EMAIL : {Undefined, Some(""), Some("qa@example.com")},
     TEST_PASSWORD : {Undefined, Some("s3cret")},
     TEST_TIMEOUT : {Undefined, Some(<<"5", "0", "0", "0">>), Some(<<"5", "s">>),
                     Some(<<"s">>)},
     NAVIGATION_TIMEOUT : {Undefined, Some(<<" ", "7", "0">>)},
     ACTION_TIMEOUT : {Undefined, Some(<<>>)},
     NODE_ENV : {Undefined, Some("production")}]

(* ------------------------- fixture life cycle -------------------------- *)

Fixtures == {"authenticatedPage", "unauthenticatedPage", "loginPage",
             "dashboardPage", "authenticatedLoginPage", "authenticatedDashboardPage"}

\* The authentication fixture a fixture is built on (itself, for the two
\* authentication fixtures).
baseFixture(fx) ==
    IF fx \in {"unauthenticatedPage", "loginPage"}
    THEN "unauthenticatedPage"
    ELSE "authenticatedPage"

\* The class of the page object a derived fixture asks the factory for.
pageObjectClass(fx) ==
    IF fx \in {"loginPage", "authenticatedLoginPage"} THEN "LoginPage" ELSE "DashboardPage"

\* A faulty variant of setupCall: no derived fixture awaits anything before use().
setupCallNone(fx) == "use"

\* The call a derived fixture awaits between the factory call and use();
\* authenticatedLoginPage awaits nothing.
setupCall(fx) ==
    CASE fx = "loginPage" -> "loginPage.goto"
      [] fx = "dashboardPage" -> "waitForDashboardLoad"
      [] fx = "authenticatedDashboardPage" -> "validateDashboard"
      [] OTHER -> "use"

\* The setup steps a fixture awaits before it calls use(), those of the
\* fixture it depends on included.
setupSteps(fx) ==
    (IF baseFixture(fx) = "authenticatedPage"
     THEN {"loginUser", "isUserLoggedIn"}
     ELSE {"logoutUser", "goto"})
    \cup (IF fx = baseFixture(fx) THEN {} ELSE {"createPage"})
    \cup ({setupCall(fx)} \ {"use"})

\* s has sub at position i.
HasAt(s, sub, i) ==
    /\ i + Len(sub) - 1 <= Len(s)
    /\ SubSeq(s, i, i + Len(sub) - 1) = sub

\* String.prototype.includes / an unanchored literal of a regular expression.
Contains(s, sub) == \E i \in 1..Len(s) : HasAt(s, sub, i)

\* A faulty variant of PostLoginUrlPattern: the login screen matches as well.
PostLoginUrlPatternWithLogin(u) ==
    LET s == urlChars[u] IN
    \/ (Len(s) > 0 /\ s[Len(s)] = "/")
    \/ Contains(s, <<"d", "a", "s", "h", "b", "o", "a", "r", "d">>)
    \/ Contains(s, <<"h", "o", "m", "e">>)
    \/ Contains(s, <<"m", "a", "i", "n">>)
    \/ Contains(s, <<"l", "o", "g", "i", "n">>)

\* /\/$|dashboard|home|main/ tested on a URL: loginUser waits for it after
\* the submit click, validateDashboardUrl asserts it.
PostLoginUrlPattern(u) ==
    LET s == urlChars[u] IN
    \/ (Len(s) > 0 /\ s[Len(s)] = "/")
    \/ Contains(s, <<"d", "a", "s", "h", "b", "o", "a", "r", "d">>)
    \/ Contains(s, <<"h", "o", "m", "e">>)
    \/ Contains(s, <<"m", "a", "i", "n">>)

\* The e-mail addresses of the accounts the tests log in with, and their
\* characters.
AccountEmails == {"productdevelopmentteam@smop.asia-uat", "QA@example.com",
                  "test@example.com"}

emailChars ==
    [e \in AccountEmails |->
        CASE e = "productdevelopmentteam@smop.asia-uat" ->
               <<"p", "r", "o", "d", "u", "c", "t", "d", "e", "v", "e", "l", "o", "p", "m", "e", "n", "t", "t", "e", "a", "m", "@", "s", "m", "o", "p", ".", "a", "s", "i", "a", "-", "u", "a", "t">>
          [] e = "QA@example.com" ->
               <<"Q", "A", "@", "e", "x", "a", "m", "p", "l", "e", ".", "c", "o", "m">>
          [] e = "test@example.com" ->
               <<"t", "e", "s", "t", "@", "e", "x", "a", "m", "p", "l", "e", ".", "c", "o", "m">>]

\* The source of the regular expression of isUserLoggedIn (the dot is escaped).
AccountPattern == <<"p", "r", "o", "d", "u", "c", "t", "d", "e", "v", "e", "l", "o", "p", "m", "e", "n", "t", "t", "e", "a", "m", "@", "s", "m", "o", "p", ".", "a", "s", "i", "a", "-", "u", "a", "t">>

\* isUserLoggedIn(page): page.getByText(/productdevelopmentteam@smop\.asia-uat/i)
\* toBeVisible -> true, catch -> false.  `shown` is the account e-mail of the
\* session, `displayed` whether the page displays it in time.
isUserLoggedIn(shown, displayed) ==
    displayed /\ Contains(toLowerCase(emailChars[shown]), AccountPattern)

\* The configuration the fixtures and helpers read.
FixtureConfig == "uat"

\* config.testEmail, the account loginUser(page) logs in with.
testEmail(e) == getEnvironmentConfig(FixtureConfig, e).value.testEmail

\* The environments the worker process runs the fixtures in: nothing set, or
\* TEST_EMAIL naming another account.
FixtureEnvs == {NoEnv, [NoEnv EXCEPT !["TEST_EMAIL"] = Some("QA@example.com")]}

\* One test of the worker process declares one of the fixtures.  Fixtures are
\* set up right before the function that asks for them, so a beforeEach hook
\* that took `page` may have navigated and logged in already; otherwise the
\* page is fresh (at about:blank, without a session).
TestStarts ==
    /\ url \in ScreenUrls
    /\ fixture \in Fixtures
    /\ fpc = "Uninitialized"
    /\ session \in (IF url = BlankUrl THEN {FALSE} ELSE BOOLEAN)
    /\ body = "notStarted"
    /\ logoutCalls = 0
    /\ logout = [raised |-> FALSE, warned |-> FALSE]
    /\ error = "none"
    /\ outcome = "none"
    /\ isLoggedIn = "unset"
    /\ po = 0
    /\ done = {}

\* The first test of a worker process: the static cache is empty.
FixtureInit ==
    /\ pageInstances = EmptyMap
    /\ instances = <<>>
    /\ test = 1
    /\ last = NoOp
    /\ born = <<>>
    /\ cleared = {}
    /\ removed = {}
    /\ call = [fn |-> "none", args |-> <<>>, seed |-> [a |-> 0, b |-> 0], returned |-> FALSE]
    /\ ret = <<>>
    /\ env \in FixtureEnvs
    /\ tasks = <<>>
    /\ copy = Undefined
    /\ context = [baseURL |-> Undefined]
    /\ dom = NoDom
    /\ helper = NoHelper
    /\ TestStarts

\* A faulty variant of afterUse: the teardown is skipped when the body failed (as if
\* `await use(page)` rejected with the body's error).
afterUseSkipOnFailure(fx, result) ==
    IF baseFixture(fx) = "authenticatedPage" /\ result = "passed"
    THEN "logoutUser.isVisible"
    ELSE "Terminal"

\* Where the authentication fixture resumes when `await use(page)` returns:
\* use() returns once everything that depends on the fixture is over (the
\* body, or a derived fixture whose setup threw), whatever the result.
\* authenticatedPage goes on to `await logoutUser(page)`; unauthenticatedPage
\* ends.  The derived fixtures have no statement after use().
afterUse(fx, result) ==
    IF baseFixture(fx) = "authenticatedPage"
    THEN "logoutUser.isVisible"
    ELSE "Terminal"

\* Where control goes when the authentication fixture calls use(page): to the
\* test body, or to the derived fixture that asked for the page.
onUse(fx) == IF fx = baseFixture(fx) THEN "use" ELSE "createPage"

\* A faulty variant of afterIsUserLoggedIn: the result of the check is ignored.
afterIsUserLoggedInIgnored(fx, loggedIn) == onUse(fx)

\* authenticatedPage, after `const isLoggedIn = await isUserLoggedIn(page)`:
\* throw when it is false, use(page) otherwise.
afterIsUserLoggedIn(fx, loggedIn) == IF loggedIn THEN onUse(fx) ELSE "Terminal"

\* A faulty variant of afterSetupCall: the derived fixture catches the error of the call
\* it awaits and goes on to use().
afterSetupCallCaught(fx, ok) == "use"

\* A derived fixture after the call it awaited: use(pageObject) when the call
\* returned; when it threw, the error leaves the fixture function and the
\* fixture it depends on is resumed for its teardown.
afterSetupCall(fx, ok) == IF ok THEN "use" ELSE afterUse(fx, "notRun")

\* A faulty variant of afterLogout: authenticatedPage calls use(page) once more after
\* its teardown.
afterLogoutUseAgain(fx) ==
    IF baseFixture(fx) = "authenticatedPage" THEN "use" ELSE "goto"

\* Where the fixture function resumes when logoutUser returns: the teardown
\* of authenticatedPage is over, the setup of unauthenticatedPage goes on.
afterLogout(fx) ==
    IF baseFixture(fx) = "authenticatedPage" THEN "Terminal" ELSE "goto"

\* A faulty variant of logoutUserCatches: the try block ends before the URL wait.
logoutUserCatchesUntilClick(stage) == stage # "toHaveURL"

\* logoutUser's try block spans the visibility check, the click and the URL
\* wait; its catch handles whatever they raise.
logoutUserCatches(stage) == stage \in {"isVisible", "click", "toHaveURL"}

\* The fixture function reaches fpc' by handing control over (use) or by
\* returning: the body starts at use; the runner reports the test when the
\* last fixture function is over.
Handover ==
    /\ body' = IF fpc' = "use" THEN "running" ELSE body
    /\ outcome' = IF fpc' = "Terminal"
                  THEN (IF error' # "none" \/ body = "notStarted" THEN "failed" ELSE body)
                  ELSE outcome

\* An error left the setup at `step`; `resume` is where the fixtures that were
\* set up before resume for their teardown.
SetupThrows(step, resume) ==
    /\ error' = step
    /\ fpc' = resume
    /\ IF resume = "Terminal"
       THEN UNCHANGED <<logoutCalls, logout>>
       ELSE /\ logoutCalls' = logoutCalls + 1
            /\ logout' = [raised |-> FALSE, warned |-> FALSE]
    /\ Handover

\* logoutUser is over: it returned, or `stage` raised an error.  A caught
\* error is logged with console.warn and logoutUser returns normally; an
\* error that is not caught leaves the fixture function.
LogoutEnds(stage) ==
    LET raised == stage # "none"
        caught == raised /\ logoutUserCatches(stage)
    IN
    /\ logout' = [raised |-> raised, warned |-> caught]
    /\ IF raised /\ ~caught
       THEN /\ error' = "logoutUser"
            /\ fpc' = "Terminal"
       ELSE /\ error' = error
            /\ fpc' = afterLogout(fixture)
    /\ done' = IF body = "notStarted" /\ error' = "none"
               THEN done \cup {"logoutUser"}
               ELSE done
    /\ Handover

\* authenticatedPage: await loginUser(page).  `submitted`: the login screen
\* loaded, showed its welcome text, and the form was filled and submitted;
\* `landing`: where the application then leaves the page.  loginUser ends with
\* expect(page).toHaveURL(/\/$|dashboard|home|main/).
AuthenticatedLogin(submitted, landing) ==
    /\ baseFixture(fixture) = "authenticatedPage"
    /\ fpc = "Uninitialized"
    /\ url' = IF submitted THEN landing ELSE LoginUrl
    /\ session' = IF submitted /\ landing # LoginUrl THEN TRUE ELSE session
    /\ IF submitted /\ PostLoginUrlPattern(landing)
       THEN /\ fpc' = "isUserLoggedIn"
            /\ done' = done \cup {"loginUser"}
            /\ UNCHANGED <<error, outcome>>
       ELSE /\ error' = "loginUser"
            /\ fpc' = "Terminal"
            /\ outcome' = "failed"
            /\ UNCHANGED done
    /\ UNCHANGED <<dataVars, pageVars, cacheVars, fixture, body, logoutCalls, logout, isLoggedIn, po>>

\* authenticatedPage: isUserLoggedIn(page), and the throw when it is false.
\* The account's e-mail is not displayed unless a session is active; the
\* session is that of the account loginUser logged in, config.testEmail.
AuthenticatedCheck(indicator) ==
    /\ baseFixture(fixture) = "authenticatedPage"
    /\ fpc = "isUserLoggedIn"
    /\ indicator => session
    /\ isLoggedIn' = IF isUserLoggedIn(testEmail(env), indicator) THEN "true" ELSE "false"
    /\ fpc' = afterIsUserLoggedIn(fixture, isUserLoggedIn(testEmail(env), indicator))
    /\ done' = done \cup {"isUserLoggedIn"}
    /\ error' = IF fpc' = "Terminal"
                THEN "Failed to authenticate user before test"
                ELSE error
    /\ Handover
    /\ UNCHANGED <<dataVars, pageVars, cacheVars, url, fixture, session, logoutCalls, logout, po>>

\* unauthenticatedPage: await logoutUser(page) opens the setup.
UnauthenticatedStart ==
    /\ baseFixture(fixture) = "unauthenticatedPage"
    /\ fpc = "Uninitialized"
    /\ fpc' = "logoutUser.isVisible"
    /\ logoutCalls' = logoutCalls + 1
    /\ UNCHANGED <<dataVars, pageVars, cacheVars, url, fixture, session, body, logout, error, outcome,
                   isLoggedIn, po, done>>

\* unauthenticatedPage: await page.goto('/login'), then use(page).
UnauthenticatedGoto(ok) ==
    /\ baseFixture(fixture) = "unauthenticatedPage"
    /\ fpc = "goto"
    /\ IF ok
       THEN /\ url' = LoginUrl
            /\ fpc' = onUse(fixture)
            /\ done' = done \cup {"goto"}
            /\ UNCHANGED error
       ELSE /\ error' = "goto"
            /\ fpc' = "Terminal"
            /\ UNCHANGED <<url, done>>
    /\ Handover
    /\ UNCHANGED <<dataVars, pageVars, cacheVars, fixture, session, logoutCalls, logout, isLoggedIn, po>>

\* A derived fixture: createLoginPage(page) / createDashboardPage(page), that
\* is PageFactory.createPage(class, page) on the static cache.
FixtureCreatePage(ctorThrows) ==
    LET pageType == pageObjectClass(fixture)
        r == createPage(pageInstances, instances, pageType, test, url, ctorThrows)
        key == pageKey(pageType, url)
    IN
    /\ fpc = "createPage"
    /\ Len(r.heap) <= MaxInstances
    /\ pageInstances' = r.cache
    /\ instances' = r.heap
    /\ born' = IF Len(r.heap) > Len(instances)
               THEN Append(born, [key |-> key, test |-> test])
               ELSE born
    /\ last' = [op |-> "createPage", cls |-> pageType, page |-> test, key |-> key,
                result |-> r.result, threw |-> r.threw, ctorRuns |-> r.ctorRuns]
    /\ po' = r.result
    /\ IF r.threw
       THEN /\ SetupThrows("createPage", afterUse(fixture, "notRun"))
            /\ UNCHANGED done
       ELSE /\ fpc' = setupCall(fixture)
            /\ done' = done \cup {"createPage"}
            /\ UNCHANGED <<error, logoutCalls, logout>>
            /\ Handover
    /\ UNCHANGED <<test, url, cleared, removed, fixture, session, isLoggedIn, dataVars, pageVars>>

\* A derived fixture awaits loginPage.goto(), dashboardPage.waitForDashboardLoad()
\* or dashboardPage.validateDashboard().  The page object acts on the page it
\* holds: on a page of an earlier test, which the runner closed, every call
\* throws.  The dashboard calls find the account's e-mail only while a
\* session is active; validateDashboard asserts the URL first.
FixtureSetupCall(ok) ==
    /\ fpc \in {"loginPage.goto", "waitForDashboardLoad", "validateDashboard"}
    /\ ok => instances[po].page = test
    /\ (ok /\ fpc # "loginPage.goto") => session
    /\ (ok /\ fpc = "validateDashboard") => PostLoginUrlPattern(url)
    /\ done' = IF ok THEN done \cup {fpc} ELSE done
    /\ url' = IF ok /\ fpc = "loginPage.goto" THEN LoginUrl ELSE url
    /\ IF afterSetupCall(fixture, ok) = "use"
       THEN /\ fpc' = "use"
            /\ UNCHANGED <<error, logoutCalls, logout>>
            /\ Handover
       ELSE SetupThrows(fpc, afterSetupCall(fixture, ok))
    /\ UNCHANGED <<dataVars, pageVars, cacheVars, fixture, session, isLoggedIn, po>>

\* The test body logs in or out by itself (login.spec.ts logs in on the
\* unauthenticated page; a dashboard test may log out).
BodyTogglesSession ==
    /\ fpc = "use"
    /\ body = "running"
    /\ session' = ~session
    /\ url' = IF session THEN LoginUrl ELSE DashboardUrl
    /\ UNCHANGED <<dataVars, pageVars, cacheVars, fixture, fpc, body, logoutCalls, logout, error, outcome,
                   isLoggedIn, po, done>>

\* The test body navigates (navigateToPage(authenticatedPage, '/dashboard')).
BodyNavigates(u) ==
    /\ fpc = "use"
    /\ body = "running"
    /\ u # url
    /\ url' = u
    /\ UNCHANGED <<cacheVars, fixtureVars, dataVars, pageVars>>

\* The test body is over (passed, or failed by an error or the test timeout)
\* and use() returns to the fixture function.
BodyFinishes(result) ==
    /\ fpc = "use"
    /\ body = "running"
    /\ body' = result
    /\ fpc' = afterUse(fixture, result)
    /\ IF fpc' = "Terminal"
       THEN /\ outcome' = result
            /\ UNCHANGED <<logoutCalls, logout>>
       ELSE /\ logoutCalls' = logoutCalls + 1
            /\ logout' = [raised |-> FALSE, warned |-> FALSE]
            /\ UNCHANGED outcome
    /\ UNCHANGED <<dataVars, pageVars, cacheVars, url, fixture, session, error, isLoggedIn, po, done>>

\* logoutUser: await logoutButton.isVisible()
LogoutIsVisible(ev) ==
    /\ fpc = "logoutUser.isVisible"
    /\ ev = "visible" => (session /\ url # BlankUrl)
    /\ IF ev = "visible"
       THEN /\ fpc' = "logoutUser.click"
            /\ UNCHANGED <<logout, error, outcome, body, done>>
       ELSE LogoutEnds(IF ev = "throws" THEN "isVisible" ELSE "none")
    /\ UNCHANGED <<dataVars, pageVars, cacheVars, url, fixture, session, logoutCalls, isLoggedIn, po>>

\* logoutUser: await logoutButton.click()
LogoutClick(ok) ==
    /\ fpc = "logoutUser.click"
    /\ IF ok
       THEN /\ session' = FALSE
            /\ fpc' = "logoutUser.toHaveURL"
            /\ UNCHANGED <<logout, error, outcome, body, done>>
       ELSE /\ LogoutEnds("click")
            /\ UNCHANGED session
    /\ UNCHANGED <<dataVars, pageVars, cacheVars, url, fixture, logoutCalls, isLoggedIn, po>>

\* logoutUser: await expect(page).toHaveURL(/login/)
LogoutWaitUrl(ok) ==
    /\ fpc = "logoutUser.toHaveURL"
    /\ IF ok
       THEN /\ url' = LoginUrl
            /\ LogoutEnds("none")
       ELSE /\ LogoutEnds("toHaveURL")
            /\ UNCHANGED url
    /\ UNCHANGED <<dataVars, pageVars, cacheVars, fixture, session, logoutCalls, isLoggedIn, po>>

\* The test is reported and the worker process starts its next test: a fresh
\* page, a fresh fixture function; the static cache lives on in the process.
FixtureNextTest ==
    /\ fpc = "Terminal"
    /\ test < MaxTests
    /\ test' = test + 1
    /\ last' = [NoOp EXCEPT !.op = "nextTest"]
    /\ url' \in ScreenUrls
    /\ fixture' \in Fixtures
    /\ fpc' = "Uninitialized"
    /\ session' \in (IF url' = BlankUrl THEN {FALSE} ELSE BOOLEAN)
    /\ body' = "notStarted"
    /\ logoutCalls' = 0
    /\ logout' = [raised |-> FALSE, warned |-> FALSE]
    /\ error' = "none"
    /\ outcome' = "none"
    /\ isLoggedIn' = "unset"
    /\ po' = 0
    /\ done' = {}
    /\ UNCHANGED <<pageInstances, instances, born, cleared, removed, dataVars, pageVars>>

FixtureNext ==
    \/ \E submitted \in BOOLEAN, landing \in LandingUrls :
          AuthenticatedLogin(submitted, landing)
    \/ \E indicator \in BOOLEAN : AuthenticatedCheck(indicator)
    \/ UnauthenticatedStart
    \/ \E ok \in BOOLEAN : UnauthenticatedGoto(ok)
    \/ \E ctorThrows \in BOOLEAN : FixtureCreatePage(ctorThrows)
    \/ \E ok \in BOOLEAN : FixtureSetupCall(ok)
    \/ BodyTogglesSession
    \/ \E u \in ScreenUrls : BodyNavigates(u)
    \/ \E result \in {"passed", "failed"} : BodyFinishes(result)
    \/ \E ev \in {"visible", "hidden", "throws"} : LogoutIsVisible(ev)
    \/ \E ok \in BOOLEAN : LogoutClick(ok)
    \/ \E ok \in BOOLEAN : LogoutWaitUrl(ok)
    \/ FixtureNextTest

\* Every await of the fixture functions ends (the waits carry timeouts), and
\* every test body ends: the runner bounds it by the test timeout.
FixtureSpec ==
    /\ FixtureInit
    /\ [][FixtureNext]_vars
    /\ WF_vars(FixtureNext)
    /\ WF_vars(\E result \in {"passed", "failed"} : BodyFinishes(result))


(* -------------------- two page-object fixtures, one test --------------- *)

\* A test that declares loginPage and dashboardPage.  The runner sets the
\* fixtures up one after the other in the order of the parameter list, each
\* one after the fixture it depends on, all on the one page of the test, and
\* tears them down in reverse order.  Here `fixture` is the parameter list and
\* fpc is the phase and the position in the list of awaited setup steps.
PairOrders == {<<"loginPage", "dashboardPage">>, <<"dashboardPage", "loginPage">>}

\* The awaited calls of a fixture and of the fixture it depends on, up to use().
chainSteps(fx) ==
    (IF baseFixture(fx) = "authenticatedPage"
     THEN << <<"authenticatedPage", "loginUser">>, <<"authenticatedPage", "isUserLoggedIn">> >>
     ELSE << <<"unauthenticatedPage", "logoutUser">>, <<"unauthenticatedPage", "goto">> >>)
    \o << <<fx, "createPage">>, <<fx, setupCall(fx)>> >>

pairProgram(order) == chainSteps(order[1]) \o chainSteps(order[2])

\* The fixture whose setup step is awaited, and the step.
pairFixture == pairProgram(fixture)[fpc.i][1]

pairStep == IF fpc.phase = "setup" THEN pairProgram(fixture)[fpc.i][2] ELSE fpc.phase

\* The last awaited step of a fixture's setup: use() follows.
lastStepOf(fx, step) ==
    IF fx = baseFixture(fx) THEN step \in {"isUserLoggedIn", "goto"}
    ELSE step = setupCall(fx)

PairTestStarts ==
    /\ url \in ScreenUrls
    /\ fixture \in PairOrders
    /\ fpc = [phase |-> "setup", i |-> 1]
    /\ session \in (IF url = BlankUrl THEN {FALSE} ELSE BOOLEAN)
    /\ body = "notStarted"
    /\ logoutCalls = 0
    /\ logout = [raised |-> FALSE, warned |-> FALSE]
    /\ error = "none"
    /\ outcome = "none"
    /\ isLoggedIn = "unset"
    /\ po = 0
    /\ done = {}

PairInit ==
    /\ pageInstances = EmptyMap
    /\ instances = <<>>
    /\ test = 1
    /\ last = NoOp
    /\ born = <<>>
    /\ cleared = {}
    /\ removed = {}
    /\ call = [fn |-> "none", args |-> <<>>, seed |-> [a |-> 0, b |-> 0], returned |-> FALSE]
    /\ ret = <<>>
    /\ PageIdle
    /\ PairTestStarts

\* The awaited setup step returned (ok) or threw.  When it returned, the next
\* step is awaited, or the body starts after the last one; when it threw, the
\* fixtures that reached use() are torn down: authenticatedPage logs out.
PairSetupStepEnds(ok) ==
    LET fx == pairFixture
        step == pairStep
        torn == IF ok /\ lastStepOf(fx, step) THEN done \cup {fx} ELSE done
    IN
    /\ done' = torn
    /\ error' = IF ok THEN error
                ELSE IF step = "isUserLoggedIn"
                     THEN "Failed to authenticate user before test"
                     ELSE step
    /\ fpc' = IF ok
              THEN IF fpc.i < Len(pairProgram(fixture))
                   THEN [phase |-> "setup", i |-> fpc.i + 1]
                   ELSE [phase |-> "body", i |-> 1]
              ELSE IF "authenticatedPage" \in done
                   THEN [phase |-> "teardown", i |-> 1]
                   ELSE [phase |-> "Terminal", i |-> 1]
    /\ body' = IF fpc'.phase = "body" THEN "running" ELSE body
    /\ outcome' = IF fpc'.phase = "Terminal" THEN "failed" ELSE outcome

\* logoutUser(page), in the setup of unauthenticatedPage or as the teardown of
\* authenticatedPage: the visibility of the logout button is read once; when
\* it is visible the button is clicked and the login URL awaited.  Every
\* error is caught and logged, so logoutUser returns.
PairLogoutUser(ev, clickOk, urlOk) ==
    LET clicked == ev = "visible" /\ clickOk
        stage == CASE ev = "throws" -> "isVisible"
                   [] ev = "visible" /\ ~clickOk -> "click"
                   [] clicked /\ ~urlOk -> "toHaveURL"
                   [] OTHER -> "none"
    IN
    /\ pairStep \in {"logoutUser", "teardown"}
    /\ ev = "visible" => (session /\ url # BlankUrl)
    /\ session' = IF clicked THEN FALSE ELSE session
    /\ url' = IF clicked /\ urlOk THEN LoginUrl ELSE url
    /\ logoutCalls' = logoutCalls + 1
    /\ logout' = [raised |-> stage # "none",
                  warned |-> stage # "none" /\ logoutUserCatches(stage)]
    /\ IF fpc.phase = "setup"
       THEN PairSetupStepEnds(stage = "none" \/ logoutUserCatches(stage))
       ELSE /\ fpc' = [phase |-> "Terminal", i |-> 1]
            /\ outcome' = IF error # "none" \/ body # "passed" THEN "failed" ELSE "passed"
            /\ UNCHANGED <<body, error, done>>
    /\ UNCHANGED <<dataVars, pageVars, cacheVars, fixture, isLoggedIn, po>>

\* unauthenticatedPage: await page.goto('/login', ...)
PairGoto(ok) ==
    /\ pairStep = "goto"
    /\ url' = IF ok THEN LoginUrl ELSE url
    /\ PairSetupStepEnds(ok)
    /\ UNCHANGED <<dataVars, pageVars, cacheVars, fixture, session, logoutCalls, logout,
                   isLoggedIn, po>>

\* authenticatedPage: await loginUser(page)
PairLoginUser(submitted, landing) ==
    /\ pairStep = "loginUser"
    /\ url' = IF submitted THEN landing ELSE LoginUrl
    /\ session' = IF submitted /\ landing # LoginUrl THEN TRUE ELSE session
    /\ PairSetupStepEnds(submitted /\ PostLoginUrlPattern(landing))
    /\ UNCHANGED <<dataVars, pageVars, cacheVars, fixture, logoutCalls, logout, isLoggedIn, po>>

\* authenticatedPage: isUserLoggedIn(page), and the throw when it is false.
PairIsUserLoggedIn(indicator) ==
    /\ pairStep = "isUserLoggedIn"
    /\ indicator => session
    /\ isLoggedIn' = IF isUserLoggedIn(testEmail(env), indicator) THEN "true" ELSE "false"
    /\ PairSetupStepEnds(afterIsUserLoggedIn(pairFixture,
                             isUserLoggedIn(testEmail(env), indicator)) # "Terminal")
    /\ UNCHANGED <<dataVars, pageVars, cacheVars, url, fixture, session, logoutCalls, logout, po>>

\* loginPage / dashboardPage: createLoginPage(page) / createDashboardPage(page)
PairCreatePage(ctorThrows) ==
    LET pageType == pageObjectClass(pairFixture)
        r == createPage(pageInstances, instances, pageType, test, url, ctorThrows)
        key == pageKey(pageType, url)
    IN
    /\ pairStep = "createPage"
    /\ Len(r.heap) <= 2 * MaxInstances
    /\ pageInstances' = r.cache
    /\ instances' = r.heap
    /\ born' = IF Len(r.heap) > Len(instances)
               THEN Append(born, [key |-> key, test |-> test])
               ELSE born
    /\ last' = [op |-> "createPage", cls |-> pageType, page |-> test, key |-> key,
                result |-> r.result, threw |-> r.threw, ctorRuns |-> r.ctorRuns]
    /\ po' = r.result
    /\ PairSetupStepEnds(~r.threw)
    /\ UNCHANGED <<test, url, cleared, removed, fixture, session, logoutCalls, logout,
                   isLoggedIn, dataVars, pageVars>>

\* loginPage: await loginPage.goto(); dashboardPage: await
\* dashboardPage.waitForDashboardLoad().
PairSetupCall(ok) ==
    /\ pairStep \in {"loginPage.goto", "waitForDashboardLoad"}
    /\ ok => instances[po].page = test
    /\ (ok /\ pairStep = "waitForDashboardLoad") => session
    /\ url' = IF ok /\ pairStep = "loginPage.goto" THEN LoginUrl ELSE url
    /\ PairSetupStepEnds(ok)
    /\ UNCHANGED <<dataVars, pageVars, cacheVars, fixture, session, logoutCalls, logout,
                   isLoggedIn, po>>

\* The body's first statement: await loginPage.loginWithDefaultCredentials(),
\* that is login(): fillEmail waits for the e-mail field of the login form,
\* then the form is filled and submitted and the post-login URL awaited.
PairBodyLogin(ok, landing) ==
    /\ fpc = [phase |-> "body", i |-> 1]
    /\ ok => (url = LoginUrl /\ PostLoginUrlPattern(landing))
    /\ url' = IF ok THEN landing ELSE url
    /\ session' = IF ok THEN TRUE ELSE session
    /\ body' = IF ok THEN body ELSE "failed"
    /\ fpc' = IF ok THEN [phase |-> "body", i |-> 2] ELSE [phase |-> "teardown", i |-> 1]
    /\ UNCHANGED <<dataVars, pageVars, cacheVars, fixture, logoutCalls, logout, error, outcome,
                   isLoggedIn, po, done>>

\* The rest of the body: the dashboard validations and the logout flow.
PairBodyFinishes(result) ==
    /\ fpc = [phase |-> "body", i |-> 2]
    /\ body' = result
    /\ fpc' = [phase |-> "teardown", i |-> 1]
    /\ UNCHANGED <<dataVars, pageVars, cacheVars, url, fixture, session, logoutCalls, logout,
                   error, outcome, isLoggedIn, po, done>>

PairNextTest ==
    /\ fpc.phase = "Terminal"
    /\ test < MaxTests
    /\ test' = test + 1
    /\ last' = [NoOp EXCEPT !.op = "nextTest"]
    /\ url' \in ScreenUrls
    /\ fixture' \in PairOrders
    /\ fpc' = [phase |-> "setup", i |-> 1]
    /\ session' \in (IF url' = BlankUrl THEN {FALSE} ELSE BOOLEAN)
    /\ body' = "notStarted"
    /\ logoutCalls' = 0
    /\ logout' = [raised |-> FALSE, warned |-> FALSE]
    /\ error' = "none"
    /\ outcome' = "none"
    /\ isLoggedIn' = "unset"
    /\ po' = 0
    /\ done' = {}
    /\ UNCHANGED <<pageInstances, instances, born, cleared, removed, dataVars, pageVars>>

PairNext ==
    \/ \E ev \in {"visible", "hidden", "throws"}, clickOk \in BOOLEAN, urlOk \in BOOLEAN :
          PairLogoutUser(ev, clickOk, urlOk)
    \/ \E ok \in BOOLEAN : PairGoto(ok)
    \/ \E submitted \in BOOLEAN, landing \in LandingUrls : PairLoginUser(submitted, landing)
    \/ \E indicator \in BOOLEAN : PairIsUserLoggedIn(indicator)
    \/ \E ctorThrows \in BOOLEAN : PairCreatePage(ctorThrows)
    \/ \E ok \in BOOLEAN : PairSetupCall(ok)
    \/ \E ok \in BOOLEAN, landing \in LandingUrls : PairBodyLogin(ok, landing)
    \/ \E result \in {"passed", "failed"} : PairBodyFinishes(result)
    \/ PairNextTest

PairSpec == PairInit /\ [][PairNext]_vars

(* ------------------------ test-data generators ------------------------- *)

\* s.replace(/\s+/g, '')
removeWhitespace(s) == SelectSeq(s, LAMBDA c : ~IsSpace(c))

\* generateFirstName: const firstNames
firstNames ==
    <<<<"J", "o", "h", "n">>,
      <<"J", "a", "n", "e">>,
      <<"M", "i", "c", "h", "a", "e", "l">>,
      <<"S", "a", "r", "a", "h">>,
      <<"D", "a", "v", "i", "d">>,
      <<"E", "m", "i", "l", "y">>,
      <<"J", "a", "m", "e", "s">>,
      <<"E", "m", "m", "a">>,
      <<"R", "o", "b", "e", "r", "t">>,
      <<"O", "l", "i", "v", "i", "a">>,
      <<"W", "i", "l", "l", "i", "a", "m">>,
      <<"S", "o", "p", "h", "i", "a">>,
      <<"R", "i", "c", "h", "a", "r", "d">>,
      <<"I", "s", "a", "b", "e", "l", "l", "a">>,
      <<"T", "h", "o", "m", "a", "s">>,
      <<"M", "i", "a">>,
      <<"C", "h", "a", "r", "l", "e", "s">>,
      <<"C", "h", "a", "r", "l", "o", "t", "t", "e">>,
      <<"D", "a", "n", "i", "e", "l">>,
      <<"A", "m", "e", "l", "i", "a">>,
      <<"M", "a", "t", "t", "h", "e", "w">>,
      <<"H", "a", "r", "p", "e", "r">>,
      <<"J", "u", "a", "n">>,
      <<"M", "a", "r", "i", "a">>,
      <<"J", "o", "s", "e">>,
      <<"A", "n", "a">>,
      <<"C", "a", "r", "l", "o", "s">>,
      <<"S", "o", "f", "i", "a">>,
      <<"M", "i", "g", "u", "e", "l">>,
      <<"I", "s", "a", "b", "e", "l", "l", "a">>>>

\* generateLastName: const lastNames
lastNames ==
    <<<<"S", "m", "i", "t", "h">>,
      <<"J", "o", "h", "n", "s", "o", "n">>,
      <<"W", "i", "l", "l", "i", "a", "m", "s">>,
      <<"B", "r", "o", "w", "n">>,
      <<"J", "o", "n", "e", "s">>,
      <<"G", "a", "r", "c", "i", "a">>,
      <<"M", "i", "l", "l", "e", "r">>,
      <<"D", "a", "v", "i", "s">>,
      <<"R", "o", "d", "r", "i", "g", "u", "e", "z">>,
      <<"M", "a", "r", "t", "i", "n", "e", "z">>,
      <<"H", "e", "r", "n", "a", "n", "d", "e", "z">>,
      <<"L", "o", "p", "e", "z">>,
      <<"G", "o", "n", "z", "a", "l", "e", "z">>,
      <<"W", "i", "l", "s", "o", "n">>,
      <<"A", "n", "d", "e", "r", "s", "o", "n">>,
      <<"T", "h", "o", "m", "a", "s">>,
      <<"T", "a", "y", "l", "o", "r">>,
      <<"M", "o", "o", "r", "e">>,
      <<"J", "a", "c", "k", "s", "o", "n">>,
      <<"M", "a", "r", "t", "i", "n">>,
      <<"D", "e", "l", "a", " ", "C", "r", "u", "z">>,
      <<"S", "a", "n", "t", "o", "s">>,
      <<"R", "e", "y", "e", "s">>,
      <<"C", "r", "u", "z">>,
      <<"B", "a", "u", "t", "i", "s", "t", "a">>,
      <<"O", "c", "a", "m", "p", "o">>,
      <<"G", "a", "r", "c", "i", "a">>>>

\* generateEmail: const domains
domains ==
    <<<<"e", "x", "a", "m", "p", "l", "e", ".", "c", "o", "m">>,
      <<"t", "e", "s", "t", ".", "c", "o", "m">>,
      <<"m", "a", "i", "l", ".", "c", "o", "m">>,
      <<"e", "m", "a", "i", "l", ".", "c", "o", "m">>,
      <<"s", "a", "m", "p", "l", "e", ".", "c", "o", "m">>>>

\* Math.random(): the i-th draw of a run is rand(seed, i) / RandDen, a value
\* in [0, 1); the draws of one run follow the sequence a, a + b, a + 2b, ...
\* modulo RandDen.
Steps == {1, 7}

Seeds == [a : 0..(RandDen - 1), b : Steps]

rand(seed, i) == (seed.a + i * seed.b) % RandDen

\* arr[Math.floor(Math.random() * arr.length)] for the draw k / RandDen
pick(arr, k) == arr[((k * Len(arr)) \div RandDen) + 1]

\* generateRandomNumber(length), fed with the draws i, i + 1, ...: each round
\* appends Math.floor(Math.random() * 10).toString().
generateRandomNumber(length, seed, i) ==
    [j \in 1..length |-> DigitChars[((rand(seed, i + j - 1) * 10) \div RandDen) + 1]]

generateFirstName(seed, i) == pick(firstNames, rand(seed, i))

generateLastName(seed, i) == pick(lastNames, rand(seed, i))

\* A faulty variant of generateEmail: the names are used as they are, neither lower-cased
\* nor stripped of whitespace.
generateEmailRaw(firstName, lastName, seed, i) ==
    LET domain == pick(domains, rand(seed, i)) IN
    IF Truthy(firstName) /\ Truthy(lastName)
    THEN firstName[1] \o <<".">> \o lastName[1]
            \o generateRandomNumber(3, seed, i + 1) \o <<"@">> \o domain
    ELSE <<"u", "s", "e", "r">> \o generateRandomNumber(6, seed, i + 1) \o <<"@">> \o domain

\* generateEmail(firstName?, lastName?): the domain is drawn first, then the
\* digits.
generateEmail(firstName, lastName, seed, i) ==
    LET domain == pick(domains, rand(seed, i)) IN
    IF Truthy(firstName) /\ Truthy(lastName)
    THEN LET cleanFirst == removeWhitespace(toLowerCase(firstName[1]))
             cleanLast == removeWhitespace(toLowerCase(lastName[1]))
         IN cleanFirst \o <<".">> \o cleanLast
                \o generateRandomNumber(3, seed, i + 1) \o <<"@">> \o domain
    ELSE <<"u", "s", "e", "r">> \o generateRandomNumber(6, seed, i + 1) \o <<"@">> \o domain

\* A faulty variant of generatePhilippineContactNumber: ten random digits, no fixed first digit.
generatePhilippineContactNumberAnyFirst(seed, i) == generateRandomNumber(10, seed, i)

\* generatePhilippineContactNumber(): '9' and nine random digits.
generatePhilippineContactNumber(seed, i) ==
    LET firstDigit == <<"9">>
        restDigits == generateRandomNumber(9, seed, i)
    IN firstDigit \o restDigits

\* Number.prototype.toString of a natural number.
RECURSIVE toString(_)
toString(n) ==
    IF n < 10 THEN <<DigitChars[n + 1]>> ELSE toString(n \div 10) \o <<DigitChars[(n % 10) + 1]>>

\* The decimal digits of n < 10^width, with leading zeros.
RECURSIVE zeroPadded(_, _)
zeroPadded(n, width) ==
    IF width = 0 THEN <<>> ELSE zeroPadded(n \div 10, width - 1) \o <<DigitChars[(n % 10) + 1]>>

\* users-admin test: Math.floor(9000000000 + Math.random() * 999999999).toString()
\* for the draw k / RandDen; k = RandDen stands for the largest double below
\* one, and `up` for the sum rounding up to the next integer, which a double
\* sum that close to an integer may do.  The numbers are kept in two limbs of
\* five decimal digits: 9000000000 = 90000 * 10^5 and
\* 999999999 = 9999 * 10^5 + 99999.
randomPhone(k, up) ==
    LET limb == 100000
        scaledHi == k * 9999
        scaledLo == k * 99999
        \* Math.floor(r * 999999999), below 999999999 for every r < 1
        floorLow == IF k = RandDen
                    THEN 9999 * limb + 99998
                    ELSE (scaledHi \div RandDen) * limb
                            + ((scaledHi % RandDen) * limb + scaledLo) \div RandDen
        low == (floorLow % limb) + up
        hi == 90000 + (floorLow \div limb) + (low \div limb)
    IN toString(hi) \o zeroPadded(low % limb, 5)

\* A faulty variant of generateUserData: the e-mail is always generated from the names.
generateUserDataFreshEmail(overrides, seed) ==
    LET ownFirst == Truthy(overrides.firstName)
        firstName == IF ownFirst THEN overrides.firstName[1] ELSE generateFirstName(seed, 0)
        i1 == IF ownFirst THEN 0 ELSE 1
        ownLast == Truthy(overrides.lastName)
        lastName == IF ownLast THEN overrides.lastName[1] ELSE generateLastName(seed, i1)
        i2 == IF ownLast THEN i1 ELSE i1 + 1
        i3 == i2 + 4
    IN [firstName |-> firstName,
        lastName |-> lastName,
        email |-> generateEmail(Some(firstName), Some(lastName), seed, i2),
        contactNumber |-> IF Truthy(overrides.contactNumber)
                          THEN overrides.contactNumber[1]
                          ELSE generatePhilippineContactNumber(seed, i3),
        permissionGroup |-> overrides.permissionGroup,
        userStatus |-> IF Truthy(overrides.userStatus)
                       THEN overrides.userStatus[1]
                       ELSE <<"A", "c", "t", "i", "v", "e">>]

\* generateUserData(overrides?): `x || generated` takes the generated value
\* when x is undefined or ''; the generators are called, and consume draws,
\* only then.  permissionGroup is copied from the overrides.
generateUserData(overrides, seed) ==
    LET ownFirst == Truthy(overrides.firstName)
        firstName == IF ownFirst THEN overrides.firstName[1] ELSE generateFirstName(seed, 0)
        i1 == IF ownFirst THEN 0 ELSE 1
        ownLast == Truthy(overrides.lastName)
        lastName == IF ownLast THEN overrides.lastName[1] ELSE generateLastName(seed, i1)
        i2 == IF ownLast THEN i1 ELSE i1 + 1
        ownEmail == Truthy(overrides.email)
        i3 == IF ownEmail THEN i2 ELSE i2 + 4
    IN [firstName |-> firstName,
        lastName |-> lastName,
        email |-> IF ownEmail
                  THEN overrides.email[1]
                  ELSE generateEmail(Some(firstName), Some(lastName), seed, i2),
        contactNumber |-> IF Truthy(overrides.contactNumber)
                          THEN overrides.contactNumber[1]
                          ELSE generatePhilippineContactNumber(seed, i3),
        permissionGroup |-> overrides.permissionGroup,
        userStatus |-> IF Truthy(overrides.userStatus)
                       THEN overrides.userStatus[1]
                       ELSE <<"A", "c", "t", "i", "v", "e">>]

\* The names a caller passes to generateEmail: none, or one of the pools.
FirstNameArgs == {Undefined} \cup {Some(firstNames[n]) : n \in 1..Len(firstNames)}

LastNameArgs == {Undefined} \cup {Some(lastNames[n]) : n \in 1..Len(lastNames)}

\* The override objects of the tests: a property is absent, '' or a value.
Overrides ==
    [firstName : {Undefined, Some(<<>>), Some(<<"T", "e", "s", "t">>)},
     lastName : {Undefined, Some(<<"U", "s", "e", "r">>)},
     email : {Undefined, Some(<<>>),
              Some(<<"t", "e", "s", "t", ".", "u", "s", "e", "r", "@", "e", "x",
                     "a", "m", "p", "l", "e", ".", "c", "o", "m">>)},
     contactNumber : {Undefined,
                      Some(<<"9", "1", "2", "3", "4", "5", "6", "7", "8", "9">>)},
     permissionGroup : {Undefined, Some(<<>>), Some(<<"A", "d", "m", "i", "n">>)},
     userStatus : {Undefined, Some(<<"A", "c", "t", "i", "v", "e">>),
                   Some(<<"B", "l", "o", "c", "k", "e", "d">>)}]

NoCall == [fn |-> "none", args |-> <<>>, seed |-> [a |-> 0, b |-> 0], returned |-> FALSE]

\* A test is about to call a generator, with the draws the call will meet; it
\* uses no page object and no fixture.
DataInit ==
    /\ FixtureIdle
    /\ pageInstances = EmptyMap
    /\ instances = <<>>
    /\ test = 1
    /\ url = BlankUrl
    /\ last = NoOp
    /\ born = <<>>
    /\ cleared = {}
    /\ removed = {}
    /\ call \in
       {[fn |-> "generateEmail", args |-> <<firstName, lastName>>, seed |-> seed,
         returned |-> FALSE] :
           firstName \in FirstNameArgs, lastName \in LastNameArgs, seed \in Seeds}
       \cup {[fn |-> "generatePhilippineContactNumber", args |-> <<>>, seed |-> seed,
              returned |-> FALSE] : seed \in Seeds}
       \cup {[fn |-> "randomPhone", args |-> <<k, 0>>, seed |-> [a |-> 0, b |-> 0],
              returned |-> FALSE] : k \in 0..RandDen}
       \cup {[fn |-> "randomPhone", args |-> <<RandDen, 1>>, seed |-> [a |-> 0, b |-> 0],
              returned |-> FALSE]}
       \cup {[fn |-> "generateUserData", args |-> overrides, seed |-> seed,
              returned |-> FALSE] : overrides \in Overrides, seed \in Seeds}
    /\ ret = <<>>
    /\ PageIdle

Returns(value) ==
    /\ ~call.returned
    /\ call' = [call EXCEPT !.returned = TRUE]
    /\ ret' = value
    /\ UNCHANGED <<cacheVars, url, fixtureVars, pageVars>>

GenerateEmail ==
    /\ call.fn = "generateEmail"
    /\ Returns(generateEmail(call.args[1], call.args[2], call.seed, 0))

GeneratePhilippineContactNumber ==
    /\ call.fn = "generatePhilippineContactNumber"
    /\ Returns(generatePhilippineContactNumber(call.seed, 0))

\* The users-admin test draws its own phone number.
RandomPhone ==
    /\ call.fn = "randomPhone"
    /\ Returns(randomPhone(call.args[1], call.args[2]))

GenerateUserData ==
    /\ call.fn = "generateUserData"
    /\ Returns(generateUserData(call.args, call.seed))

DataNext ==
    \/ GenerateEmail
    \/ GeneratePhilippineContactNumber
    \/ RandomPhone
    \/ GenerateUserData

DataSpec == DataInit /\ [][DataNext]_vars


(* ---------------------- createPageByUrl, copies ------------------------ *)

\* A login URL that carries the dashboard as its return address.
LoginNextUrl == "http://localhost:3000/login?next=/dashboard"

\* A screen neither createPageByUrl branch names.
UsersUrl == "http://localhost:3000/admin/users/"

\* The URLs at which the tests of this part call the factory.
DispatchUrls == {DashboardUrl, LoginNextUrl, RootUrl, UsersUrl}

dispatchChars ==
    [u \in DispatchUrls |->
        CASE u = DashboardUrl -> <<"h", "t", "t", "p", ":", "/", "/", "l", "o", "c", "a", "l", "h", "o", "s", "t", ":", "3", "0", "0", "0", "/", "d", "a", "s", "h", "b", "o", "a", "r", "d">>
          [] u = LoginNextUrl -> <<"h", "t", "t", "p", ":", "/", "/", "l", "o", "c", "a", "l", "h", "o", "s", "t", ":", "3", "0", "0", "0", "/", "l", "o", "g", "i", "n", "?", "n", "e", "x", "t", "=", "/", "d", "a", "s", "h", "b", "o", "a", "r", "d">>
          [] u = RootUrl -> <<"h", "t", "t", "p", ":", "/", "/", "l", "o", "c", "a", "l", "h", "o", "s", "t", ":", "3", "0", "0", "0", "/">>
          [] u = UsersUrl -> <<"h", "t", "t", "p", ":", "/", "/", "l", "o", "c", "a", "l", "h", "o", "s", "t", ":", "3", "0", "0", "0", "/", "a", "d", "m", "i", "n", "/", "u", "s", "e", "r", "s", "/">>]

\* currentUrl.includes(sub)
includes(u, sub) == Contains(dispatchChars[u], sub)

\* What page.context().baseURL evaluates to: undefined, or the base URL the
\* context was created with.
BaseUrlValues == {Undefined, Some(RootUrl)}

\* A faulty variant of createPageByUrl: the dashboard branch is tested first.
createPageByUrlDashboardFirst(cache, heap, p, u, baseURL, ctorThrows) ==
    IF includes(u, <<"/", "d", "a", "s", "h", "b", "o", "a", "r", "d">>) \/ Some(u) = baseURL
    THEN createPage(cache, heap, "DashboardPage", p, u, ctorThrows)
    ELSE IF includes(u, <<"/", "l", "o", "g", "i", "n">>)
    THEN createPage(cache, heap, "LoginPage", p, u, ctorThrows)
    ELSE IF ctorThrows
    THEN [cache |-> cache, heap |-> heap, result |-> 0, threw |-> TRUE, ctorRuns |-> 1]
    ELSE [cache |-> cache, heap |-> Append(heap, construct("BasePage", p)),
          result |-> Len(heap) + 1, threw |-> FALSE, ctorRuns |-> 1]

\* PageFactory.createPageByUrl(page), with u = page.url() and baseURL =
\* page.context().baseURL: createLoginPage / createDashboardPage are
\* createPage(LoginPage, page) / createPage(DashboardPage, page); the default
\* is new BasePage(page), which is not put into the Map.
createPageByUrl(cache, heap, p, u, baseURL, ctorThrows) ==
    IF includes(u, <<"/", "l", "o", "g", "i", "n">>)
    THEN createPage(cache, heap, "LoginPage", p, u, ctorThrows)
    ELSE IF includes(u, <<"/", "d", "a", "s", "h", "b", "o", "a", "r", "d">>) \/ Some(u) = baseURL
    THEN createPage(cache, heap, "DashboardPage", p, u, ctorThrows)
    ELSE IF ctorThrows
    THEN [cache |-> cache, heap |-> heap, result |-> 0, threw |-> TRUE, ctorRuns |-> 1]
    ELSE [cache |-> cache, heap |-> Append(heap, construct("BasePage", p)),
          result |-> Len(heap) + 1, threw |-> FALSE, ctorRuns |-> 1]

\* A faulty variant of getCachedInstances: the static Map itself is returned.
getCachedInstancesAlias(cache) == [alias |-> TRUE, entries |-> cache]

\* PageFactory.getCachedInstances(): return new Map(this.pageInstances).  The
\* result is a Map of its own (alias: whether it is the factory's Map object).
getCachedInstances(cache) == [alias |-> FALSE, entries |-> cache]

\* A test on a page of the application; the worker's cache is empty.
DispatchInit ==
    /\ FixtureIdle
    /\ pageInstances = EmptyMap
    /\ instances = <<>>
    /\ test = 1
    /\ url \in DispatchUrls
    /\ last = NoOp
    /\ born = <<>>
    /\ cleared = {}
    /\ removed = {}
    /\ call = [fn |-> "none", args |-> <<>>, seed |-> [a |-> 0, b |-> 0], returned |-> FALSE]
    /\ ret = <<>>
    /\ env = NoEnv
    /\ tasks = <<>>
    /\ copy = Undefined
    /\ context \in [baseURL : BaseUrlValues]
    /\ dom = NoDom
    /\ helper = NoHelper

\* A test calls createPageByUrl(page) on its own page.
CreatePageByUrl(ctorThrows) ==
    LET r == createPageByUrl(pageInstances, instances, test, url, context.baseURL,
                             ctorThrows)
        made == Len(r.heap) > Len(instances)
        cls == IF r.threw THEN "" ELSE r.heap[r.result].cls
    IN
    /\ Len(r.heap) <= MaxInstances
    /\ pageInstances' = r.cache
    /\ instances' = r.heap
    /\ born' = IF made THEN Append(born, [key |-> pageKey(cls, url), test |-> test])
               ELSE born
    /\ last' = [op |-> "createPageByUrl", cls |-> cls, page |-> test,
                key |-> pageKey(cls, url), result |-> r.result, threw |-> r.threw,
                ctorRuns |-> r.ctorRuns]
    /\ UNCHANGED <<test, url, cleared, removed, fixtureVars, dataVars, pageVars>>

\* A test calls getCachedInstances() and keeps the Map.
GetCachedInstances ==
    /\ copy' = Some(getCachedInstances(pageInstances))
    /\ last' = [NoOp EXCEPT !.op = "getCachedInstances"]
    /\ UNCHANGED <<pageInstances, instances, test, url, born, cleared, removed,
                   fixtureVars, dataVars, env, tasks, context, dom, helper>>

\* The test deletes an entry of the Map it holds, or clears it.  A Map that
\* is the factory's own object changes the factory's cache.
CopyMutates(k) ==
    LET m == copy[1]
        entries == IF k = "clear" THEN EmptyMap
                   ELSE [j \in DOMAIN m.entries \ {k} |-> m.entries[j]]
    IN
    /\ copy # Undefined
    /\ entries # m.entries
    /\ copy' = Some([m EXCEPT !.entries = entries])
    /\ pageInstances' = IF m.alias THEN entries ELSE pageInstances
    /\ last' = [NoOp EXCEPT !.op = "copy.delete"]
    /\ UNCHANGED <<instances, test, url, born, cleared, removed,
                   fixtureVars, dataVars, env, tasks, context, dom, helper>>

DispatchNext ==
    \/ \E t \in BOOLEAN : CreatePageByUrl(t)
    \/ \E u \in DispatchUrls : Goto(u)
    \/ \E c \in Classes, u \in DispatchUrls : RemovePageInstance(c, u)

DispatchSpec == DispatchInit /\ [][DispatchNext]_vars

\* A test that creates page objects, removes them from the cache and looks
\* at the cache through getCachedInstances.
CopyKeys == {"clear"} \cup {pageKey(c, u) : c \in Classes, u \in Urls}

CopyNext ==
    \/ \E c \in Classes, t \in BOOLEAN : CreatePage(c, t)
    \/ \E u \in Urls : Goto(u)
    \/ \E c \in Classes, u \in Urls : RemovePageInstance(c, u)
    \/ GetCachedInstances
    \/ \E k \in CopyKeys : CopyMutates(k)

CopySpec == Init /\ [][CopyNext]_vars

(* ------------------ createPage under interleaved tasks ----------------- *)

\* Number of asynchronous tasks of one test that call createPage.
MaxTasks == 3

\* The statements of createPage in execution order: the lookup
\* (pageInstances.has), the constructor call, the insert (pageInstances.set)
\* and the final read (pageInstances.get).
CreatePageOps == <<"has", "new", "set", "get">>

\* A faulty variant of createPageSuspends: the lookup is awaited (an asynchronous
\* cache), so other tasks run between the lookup and the insert.
createPageSuspendsAfterLookup(op) == op = "has"

\* Whether the task is suspended after a statement of createPage: the method
\* is synchronous, it contains no await.
createPageSuspends(op) == FALSE

\* One statement of createPage, run by task record t on the cache and heap.
createPageOp(st, t, p, u) ==
    CASE t.pc = "has" ->
           LET key == pageKey(t.cls, u) IN
           [cache |-> st.cache, heap |-> st.heap,
            task |-> [t EXCEPT !.key = key, !.hit = (key \in DOMAIN st.cache),
                               !.pc = IF key \in DOMAIN st.cache THEN "get" ELSE "new"]]
      [] t.pc = "new" ->
           [cache |-> st.cache, heap |-> Append(st.heap, construct(t.cls, p)),
            task |-> [t EXCEPT !.inst = Len(st.heap) + 1, !.pc = "set"]]
      [] t.pc = "set" ->
           [cache |-> [k \in DOMAIN st.cache \cup {t.key} |->
                          IF k = t.key THEN t.inst ELSE st.cache[k]],
            heap |-> st.heap,
            task |-> [t EXCEPT !.pc = "get"]]
      [] t.pc = "get" ->
           [cache |-> st.cache, heap |-> st.heap,
            task |-> [t EXCEPT !.result = st.cache[t.key], !.pc = "done"]]

\* The task runs from where it stands to its next suspension point, or to
\* the return of createPage (JavaScript runs a task to completion between
\* awaits).
RECURSIVE runToSuspension(_, _, _)
runToSuspension(st, p, u) ==
    LET op == st.task.pc
        nxt == createPageOp(st, st.task, p, u)
    IN
    IF op = "done" THEN st
    ELSE IF createPageSuspends(op) THEN nxt
    ELSE runToSuspension(nxt, p, u)

NewTask(cls) == [pc |-> "await", cls |-> cls, key |-> "", hit |-> FALSE, inst |-> 0,
                 result |-> 0]

\* A test starts MaxTasks tasks on its page (Promise.all); each awaits
\* something and then calls createPage for its class.
TaskInit ==
    /\ FixtureIdle
    /\ pageInstances = EmptyMap
    /\ instances = <<>>
    /\ test = 1
    /\ url \in Urls
    /\ last = NoOp
    /\ born = <<>>
    /\ cleared = {}
    /\ removed = {}
    /\ call = [fn |-> "none", args |-> <<>>, seed |-> [a |-> 0, b |-> 0], returned |-> FALSE]
    /\ ret = <<>>
    /\ env = NoEnv
    /\ tasks \in [1..MaxTasks -> {NewTask(cls) : cls \in Classes}]
    /\ copy = Undefined
    /\ context = [baseURL |-> Undefined]
    /\ dom = NoDom
    /\ helper = NoHelper

taskFrame == <<test, cleared, removed, fixtureVars, dataVars, env, copy, context, dom, helper>>

\* The awaited promise of task t settles: the task goes on to call createPage.
TaskCalls(t) ==
    /\ tasks[t].pc = "await"
    /\ tasks' = [tasks EXCEPT ![t].pc = "has"]
    /\ UNCHANGED <<pageInstances, instances, born, last, url, taskFrame>>

\* Task t is scheduled and runs inside createPage up to its next suspension
\* point or to the return.
TaskRuns(t) ==
    LET st == runToSuspension([cache |-> pageInstances, heap |-> instances,
                               task |-> tasks[t]], test, url)
    IN
    /\ tasks[t].pc \in Range(CreatePageOps)
    /\ pageInstances' = st.cache
    /\ instances' = st.heap
    /\ tasks' = [tasks EXCEPT ![t] = st.task]
    /\ born' = IF Len(st.heap) > Len(instances)
               THEN Append(born, [key |-> st.task.key, test |-> test])
               ELSE born
    /\ last' = [op |-> "createPage", cls |-> st.task.cls, page |-> test,
                key |-> st.task.key, result |-> st.task.result, threw |-> FALSE,
                ctorRuns |-> Len(st.heap) - Len(instances)]
    /\ UNCHANGED <<url, taskFrame>>

\* The page navigates while tasks are suspended.
TaskGoto(u) ==
    /\ u # url
    /\ \E t \in DOMAIN tasks : tasks[t].pc # "done"
    /\ url' = u
    /\ UNCHANGED <<pageInstances, instances, born, last, tasks, taskFrame>>

TaskNext ==
    \/ \E t \in 1..MaxTasks : TaskCalls(t)
    \/ \E t \in 1..MaxTasks : TaskRuns(t)
    \/ \E u \in Urls : TaskGoto(u)

TaskSpec == TaskInit /\ [][TaskNext]_vars

(* ----------------------- page-object helpers --------------------------- *)

\* What a locator resolves to in the document: no element, an element that
\* is attached but not displayed, one displayed element, several elements.
BannerStates == {"absent", "hidden", "visible", "many"}

\* BasePage.errorMessage and BasePage.successMessage (for UsersListPage's own
\* reader: UsersListPage.successBanner).
Banners == {"error", "success"}

\* The page-object classes whose banner readers are called.
ReaderClasses == {"LoginPage", "UsersListPage"}

bannerText(b) ==
    IF b = "error" THEN "Invalid credentials"
    ELSE "New User has been added! User list updated."

\* expect(locator).toBeVisible({ timeout }): passes on one displayed element;
\* fails with a time-out, with a strict-mode violation when the locator
\* resolves to several elements, or because the page was closed.
toBeVisible(state, closed) ==
    CASE closed -> "closed"
      [] state = "visible" -> "pass"
      [] state = "many" -> "strict"
      [] OTHER -> "timeout"

\* A faulty variant of isElementVisible: only the time-out is caught.
isElementVisibleCatchesTimeout(check) ==
    [value |-> check = "pass", threw |-> check \in {"strict", "closed"}]

\* BasePage.isElementVisible(locator): try { await expect(locator)
\* .toBeVisible({ timeout: 1000 }); return true } catch { return false }
isElementVisible(check) == [value |-> check = "pass", threw |-> FALSE]

\* BasePage.waitForElement(locator): await expect(locator).toBeVisible(...)
waitForElement(check) == [threw |-> check # "pass"]

\* BasePage.getElementText(locator): await locator.textContent() || ''.
\* textContent waits for one attached element, displayed or not.
getElementText(state, closed, text) ==
    IF closed \/ state \in {"absent", "many"}
    THEN [value |-> "", threw |-> TRUE]
    ELSE [value |-> text, threw |-> FALSE]

\* UsersListPage overrides getSuccessMessage; every other reader is BasePage's.
overridesReader(cls, b) == cls = "UsersListPage" /\ b = "success"

\* The first awaited step of a banner reader: BasePage's readers ask
\* hasErrorMessage/hasSuccessMessage (isElementVisible), UsersListPage's
\* getSuccessMessage calls waitForElement.
readerCheck(cls, b, check) ==
    IF overridesReader(cls, b)
    THEN [read |-> ~waitForElement(check).threw, threw |-> waitForElement(check).threw]
    ELSE [read |-> isElementVisible(check).value, threw |-> isElementVisible(check).threw]

readerName(b) == IF b = "error" THEN "getErrorMessage" ELSE "getSuccessMessage"

\* No method is running.
HelperIdle == [fn |-> "none", banner |-> "none", pc |-> "idle", check |-> "none",
               value |-> "", threw |-> FALSE]

\* A test holds a page object of some class on a page that shows any
\* combination of banners.
BannerInit ==
    /\ FixtureIdle
    /\ pageInstances = EmptyMap
    /\ instances = <<>>
    /\ test = 1
    /\ url = LoginUrl
    /\ last = NoOp
    /\ born = <<>>
    /\ cleared = {}
    /\ removed = {}
    /\ call = [fn |-> "none", args |-> <<>>, seed |-> [a |-> 0, b |-> 0], returned |-> FALSE]
    /\ ret = <<>>
    /\ env = NoEnv
    /\ tasks = <<>>
    /\ copy = Undefined
    /\ context = [baseURL |-> Undefined]
    /\ dom \in [cls : ReaderClasses, closed : {FALSE}, error : BannerStates,
                success : BannerStates]
    /\ helper = HelperIdle

bannerFrame == <<cacheVars, url, fixtureVars, dataVars, env, tasks, copy, context>>

\* isElementVisible(this.errorMessage) or isElementVisible(this.successMessage)
IsElementVisible(b) ==
    LET check == toBeVisible(dom[b], dom.closed)
        r == isElementVisible(check)
    IN
    /\ helper.pc = "idle"
    /\ helper' = [fn |-> "isElementVisible", banner |-> b, pc |-> "idle",
                  check |-> check, value |-> IF r.value THEN "true" ELSE "false",
                  threw |-> r.threw]
    /\ UNCHANGED <<dom, bannerFrame>>

\* getErrorMessage() / getSuccessMessage() up to the end of the visibility check.
ReaderChecks(b) ==
    LET check == toBeVisible(dom[b], dom.closed)
        r == readerCheck(dom.cls, b, check)
    IN
    /\ helper.pc = "idle"
    /\ helper' = [fn |-> readerName(b), banner |-> b,
                  pc |-> IF r.read THEN "read" ELSE "idle",
                  check |-> check, value |-> "", threw |-> r.threw]
    /\ UNCHANGED <<dom, bannerFrame>>

\* The rest of the reader: return await this.getElementText(locator)
ReaderReads ==
    LET r == getElementText(dom[helper.banner], dom.closed, bannerText(helper.banner)) IN
    /\ helper.pc = "read"
    /\ helper' = [helper EXCEPT !.pc = "idle", !.value = r.value, !.threw = r.threw]
    /\ UNCHANGED <<dom, bannerFrame>>

\* The application shows, hides or removes a banner (a banner that dismisses
\* itself, a re-render).
BannerChanges(b, s) ==
    /\ ~dom.closed
    /\ s # dom[b]
    /\ dom' = [dom EXCEPT ![b] = s]
    /\ UNCHANGED <<helper, bannerFrame>>

\* The page is closed (the test that owned it is over).
PageCloses ==
    /\ ~dom.closed
    /\ dom' = [dom EXCEPT !.closed = TRUE]
    /\ UNCHANGED <<helper, bannerFrame>>

BannerNext ==
    \/ \E b \in Banners : IsElementVisible(b)
    \/ \E b \in Banners : ReaderChecks(b)
    \/ ReaderReads
    \/ \E b \in Banners, s \in BannerStates : BannerChanges(b, s)
    \/ PageCloses

BannerSpec == BannerInit /\ [][BannerNext]_vars

(* ------------------------------ form fields ---------------------------- *)

\* maxlength of the contact number field of the create-user form.
PhoneMaxLength == 10

\* The page objects with form fields, and their fields.
FormClasses == {"LoginPage", "CreateUserPage"}

formFields(cls) ==
    IF cls = "LoginPage" THEN {"email", "password"}
    ELSE {"first_name", "last_name", "email", "phone_number"}

\* The attributes of the input elements: those of the create-user form are
\* documented; the type of the login form's e-mail field is not.
FormAttrs(cls) ==
    IF cls = "LoginPage"
    THEN {[email |-> [type |-> t, maxlength |-> Undefined],
           password |-> [type |-> "password", maxlength |-> Undefined]] :
             t \in {"text", "email"}}
    ELSE {[first_name |-> [type |-> "text", maxlength |-> Undefined],
           last_name |-> [type |-> "text", maxlength |-> Undefined],
           email |-> [type |-> "email", maxlength |-> Undefined],
           phone_number |-> [type |-> "text", maxlength |-> Some(PhoneMaxLength)]]}

\* The values the tests fill in: a short one, an 11-digit number (a mobile
\* number with its leading 0) and one with a leading blank.
FormValues ==
    {<<"A", "n", "a">>,
     <<"0", "9", "1", "7", "1", "2", "3", "4", "5", "6", "7">>,
     <<" ", "q", "@", "x">>}

RECURSIVE trimStart(_)
trimStart(s) == IF s # <<>> /\ IsSpace(Head(s)) THEN trimStart(Tail(s)) ELSE s

RECURSIVE trimEnd(_)
trimEnd(s) ==
    IF s # <<>> /\ IsSpace(s[Len(s)]) THEN trimEnd(SubSeq(s, 1, Len(s) - 1)) ELSE s

\* The value an input element keeps of the text it is given: an e-mail field
\* strips leading and trailing white space (value sanitization).
sanitize(attrs, s) == IF attrs.type = "email" THEN trimStart(trimEnd(s)) ELSE s

\* Text inserted into an empty or fully selected field: at most maxlength
\* characters are taken.
truncate(attrs, s) ==
    IF attrs.maxlength # Undefined /\ Len(s) > attrs.maxlength[1]
    THEN SubSeq(s, 1, attrs.maxlength[1])
    ELSE s

\* locator.fill(v): the content is selected and replaced by the inserted text.
fill(attrs, current, v) == sanitize(attrs, truncate(attrs, v))

\* locator.clear()
clear(attrs, current) == fill(attrs, current, <<>>)

\* A faulty variant of fillInput: the text is typed after the content that is there.
fillInputTyped(attrs, current, v) == sanitize(attrs, truncate(attrs, current \o v))

\* fillEmail, fillPassword, fillFirstName, fillLastName, fillContactNumber
\* after waitForElement: await input.clear(); await input.fill(value)
fillInput(attrs, current, v) == fill(attrs, clear(attrs, current), v)

\* A faulty variant of toggleRememberMe: the checkbox is clicked whatever its state.
toggleRememberMeAlways(isChecked, checked) ==
    [clicks |-> 1, checked |-> ~isChecked]

\* toggleRememberMe(checked) after waitForElement: the state is read with
\* isChecked() and the checkbox clicked when it differs; a click flips it.
toggleRememberMe(isChecked, checked) ==
    IF isChecked # checked
    THEN [clicks |-> 1, checked |-> ~isChecked]
    ELSE [clicks |-> 0, checked |-> isChecked]

FormHelperIdle == [fn |-> "none", field |-> "none", arg |-> <<>>, flag |-> FALSE,
                   value |-> <<>>, threw |-> FALSE, clicks |-> 0,
                   filled |-> Undefined, prior |-> <<>>, repeat |-> FALSE]

\* A fresh form: empty fields, the checkbox not checked.
freshForm(d) ==
    [d EXCEPT !.fields = [f \in DOMAIN d.fields |-> <<>>], !.checked = FALSE]

\* A test holds a LoginPage or a CreateUserPage on a page that displays the
\* form (or not yet).
FormInit ==
    /\ FixtureIdle
    /\ pageInstances = EmptyMap
    /\ instances = <<>>
    /\ test = 1
    /\ url = LoginUrl
    /\ last = NoOp
    /\ born = <<>>
    /\ cleared = {}
    /\ removed = {}
    /\ call = [fn |-> "none", args |-> <<>>, seed |-> [a |-> 0, b |-> 0], returned |-> FALSE]
    /\ ret = <<>>
    /\ env = NoEnv
    /\ tasks = <<>>
    /\ copy = Undefined
    /\ context = [baseURL |-> Undefined]
    /\ \E cls \in FormClasses, loaded \in BOOLEAN : \E attrs \in FormAttrs(cls) :
          dom = [cls |-> cls, loaded |-> loaded, attrs |-> attrs,
                 fields |-> [f \in formFields(cls) |-> <<>>], checked |-> FALSE]
    /\ helper = FormHelperIdle

formFrame == <<cacheVars, url, fixtureVars, dataVars, env, tasks, copy, context>>

\* fillX(v): waitForElement throws while the form is not displayed.
FillInput(f, v) ==
    /\ f \in formFields(dom.cls)
    /\ IF dom.loaded
       THEN dom' = [dom EXCEPT !.fields[f] = fillInput(dom.attrs[f], dom.fields[f], v)]
       ELSE dom' = dom
    /\ helper' = [FormHelperIdle EXCEPT !.fn = "fill", !.field = f, !.arg = v,
                                        !.threw = ~dom.loaded, !.prior = dom.fields[f]]
    /\ UNCHANGED formFrame

\* getXValue(): return await input.inputValue()
GetInputValue(f) ==
    LET follows == helper.fn = "fill" /\ helper.field = f /\ ~helper.threw IN
    /\ f \in formFields(dom.cls)
    /\ helper' = [FormHelperIdle EXCEPT
                     !.fn = "get", !.field = f,
                     !.value = IF dom.loaded THEN dom.fields[f] ELSE <<>>,
                     !.threw = ~dom.loaded,
                     !.filled = IF follows THEN Some(helper.arg) ELSE Undefined,
                     !.prior = IF follows THEN helper.prior ELSE <<>>]
    /\ UNCHANGED <<dom, formFrame>>

\* LoginPage.toggleRememberMe(checked)
ToggleRememberMe(checked) ==
    LET r == toggleRememberMe(dom.checked, checked) IN
    /\ dom.cls = "LoginPage"
    /\ dom' = IF dom.loaded THEN [dom EXCEPT !.checked = r.checked] ELSE dom
    /\ helper' = [FormHelperIdle EXCEPT
                     !.fn = "toggleRememberMe", !.flag = checked,
                     !.threw = ~dom.loaded,
                     !.clicks = IF dom.loaded THEN r.clicks ELSE 0,
                     !.repeat = (helper.fn = "toggleRememberMe" /\ helper.flag = checked
                                 /\ ~helper.threw)]
    /\ UNCHANGED formFrame

\* LoginPage.isRememberMeChecked()
IsRememberMeChecked ==
    /\ dom.cls = "LoginPage"
    /\ helper' = [FormHelperIdle EXCEPT
                     !.fn = "isRememberMeChecked",
                     !.flag = IF dom.loaded THEN dom.checked ELSE FALSE,
                     !.threw = ~dom.loaded,
                     !.repeat = (helper.fn = "toggleRememberMe" /\ ~helper.threw),
                     !.arg = IF helper.fn = "toggleRememberMe" /\ helper.flag
                             THEN <<"true">> ELSE <<"false">>]
    /\ UNCHANGED <<dom, formFrame>>

\* The page is loaded or reloaded, or navigates away: the form comes up
\* fresh, or is gone.
FormNavigates(loaded) ==
    /\ dom' = [freshForm(dom) EXCEPT !.loaded = loaded]
    /\ helper' = [FormHelperIdle EXCEPT !.fn = "goto"]
    /\ UNCHANGED formFrame

FormNext ==
    \/ \E f \in formFields(dom.cls), v \in FormValues : FillInput(f, v)
    \/ \E f \in formFields(dom.cls) : GetInputValue(f)
    \/ \E checked \in BOOLEAN : ToggleRememberMe(checked)
    \/ IsRememberMeChecked
    \/ \E loaded \in BOOLEAN : FormNavigates(loaded)

FormSpec == FormInit /\ [][FormNext]_vars

(* ------------------ reading the configuration ------------------------ *)

\* A module is about to read the configuration in some environment.
ConfigInit ==
    /\ FixtureIdle
    /\ pageInstances = EmptyMap
    /\ instances = <<>>
    /\ test = 1
    /\ url = BlankUrl
    /\ last = NoOp
    /\ born = <<>>
    /\ cleared = {}
    /\ removed = {}
    /\ call \in {[fn |-> "getEnvironmentConfig", args |-> <<variant>>,
                  seed |-> [a |-> 0, b |-> 0], returned |-> FALSE] :
                    variant \in ConfigVariants}
    /\ ret = <<>>
    /\ env \in Envs
    /\ tasks = <<>>
    /\ copy = Undefined
    /\ context = [baseURL |-> Undefined]
    /\ dom = NoDom
    /\ helper = NoHelper

GetEnvironmentConfig ==
    /\ call.fn = "getEnvironmentConfig"
    /\ Returns(getEnvironmentConfig(call.args[1], env))

ConfigNext == GetEnvironmentConfig

ConfigSpec == ConfigInit /\ [][ConfigNext]_vars

(* --------------------------- factory claims ---------------------------- *)

\* References a clearCache or removePageInstance call dropped from the cache.
evicted == cleared \cup removed

\* C1: createPage is idempotent per key.  When an earlier createPage(C, page)
\* constructed and returned instance i for the key of this call (class C, the
\* URL the page is at now) and no clearCache/removePageInstance dropped i
\* since, createPage(C, page) returns that very reference and the constructor
\* of C does not run.
C1_CreatePageIdempotent ==
    [][\A i \in 1..Len(instances) :
          (/\ last'.op = "createPage"
           /\ born[i].key = last'.key
           /\ i \notin evicted)
          => (/\ ~last'.threw
              /\ last'.result = i
              /\ last'.ctorRuns = 0
              /\ instances' = instances)]_vars

\* C1 witness: a second call on the same page at the same URL was served from
\* the cache.
C1_Witness ==
    /\ last.op = "createPage"
    /\ ~last.threw
    /\ last.ctorRuns = 0
    /\ instances[last.result].page = last.page
    /\ born[last.result].test = test

\* C2: the instance createPage(C, p) returns wraps p itself, whatever handles
\* were passed earlier with the same class and URL string.
C2_ReturnedInstanceWrapsPassedPage ==
    (last.op = "createPage" /\ ~last.threw)
        => instances[last.result].page = last.page

\* C3: each test observes its own factory cache: an instance created during
\* one test is never returned to a later test of the same worker process.
C3_NoInstanceCrossesTests ==
    (last.op = "createPage" /\ ~last.threw)
        => born[last.result].test = test

\* C4: after clearCache() the cache is empty, and createPage never again
\* returns a reference that was cached when clearCache ran: a key cached
\* before the clear gets a newly constructed instance.
C4_ClearCacheEffective ==
    /\ last.op = "clearCache" => DOMAIN pageInstances = {}
    /\ (last.op = "createPage" /\ ~last.threw) => last.result \notin cleared

\* C4 witness: a key that was cached before a clear has been created again.
C4_Witness ==
    /\ last.op = "createPage"
    /\ ~last.threw
    /\ last.ctorRuns = 1
    /\ \E i \in cleared : born[i].key = last.key /\ i # last.result

\* C5: two classes on one page at one URL get two distinct instances, each of
\* its own class, each under its own key; no key shares a reference with
\* another key.
C5_ClassesCachedIndependently ==
    /\ \A c \in Classes, u \in Urls :
          pageKey(c, u) \in DOMAIN pageInstances
              => instances[pageInstances[pageKey(c, u)]].cls = c
    /\ \A k1, k2 \in DOMAIN pageInstances :
          k1 # k2 => pageInstances[k1] # pageInstances[k2]
    /\ (last.op = "createPage" /\ ~last.threw)
          => instances[last.result].cls = last.cls

\* C5 witness: both classes are cached for the running test's page at its URL.
C5_Witness ==
    /\ \A c \in Classes :
          /\ pageKey(c, url) \in DOMAIN pageInstances
          /\ instances[pageInstances[pageKey(c, url)]].page = test
    /\ last.op = "createPage"

\* C6: createPage calls and navigations never remove or replace an entry; a
\* createPage at a URL whose key is not cached adds a new instance under the
\* new key next to the old entries.
C6_OnlyClearAndRemoveEvict ==
    [][last'.op \in {"createPage", "goto"}
          => /\ \A k \in DOMAIN pageInstances :
                   k \in DOMAIN pageInstances' /\ pageInstances'[k] = pageInstances[k]
             /\ (last'.op = "createPage" /\ ~last'.threw
                     /\ last'.key \notin DOMAIN pageInstances)
                   => /\ Len(instances') = Len(instances) + 1
                      /\ pageInstances'[last'.key] = Len(instances')
                      /\ last'.result = Len(instances')]_vars

\* C6 witness: the page navigated between two createPage calls of one class,
\* and both entries are in the cache.
C6_Witness ==
    \E c \in Classes, u \in Urls \ {url} :
        /\ pageKey(c, u) \in DOMAIN pageInstances
        /\ pageKey(c, url) \in DOMAIN pageInstances
        /\ instances[pageInstances[pageKey(c, u)]].page = test
        /\ instances[pageInstances[pageKey(c, url)]].page = test
        /\ last.op = "createPage"
        /\ last.ctorRuns = 1

\* C7: a key is fixed at creation and navigation never invalidates it: every
\* instance no clear/remove was aimed at is still stored under the key it was
\* created with, and createPage at that key returns it.
C7_KeyFixedAtCreation ==
    /\ \A i \in 1..Len(instances) :
          i \notin evicted
              => /\ born[i].key \in DOMAIN pageInstances
                 /\ pageInstances[born[i].key] = i
    /\ (last.op = "createPage" /\ ~last.threw)
          => \A i \in 1..Len(instances) :
                (i \notin evicted /\ born[i].key = last.key) => last.result = i

\* C7 witness: X was created at url A, the page then was at another URL (a
\* younger instance of the class was created there), came back to A, and
\* createPage returned X.
C7_Witness ==
    /\ last.op = "createPage"
    /\ ~last.threw
    /\ last.ctorRuns = 0
    /\ instances[last.result].page = test
    /\ \E j \in 1..Len(instances), u \in Urls \ {url} :
          /\ j > last.result
          /\ instances[j].page = test
          /\ born[j].key = pageKey(last.cls, u)

\* C8: when the constructor throws inside createPage the error reaches the
\* caller, the constructor ran once (no retry), and the cache and the heap are
\* what they were before the call.
C8_ThrowLeavesCacheUntouched ==
    [][(last'.op = "createPage" /\ last'.threw)
          => /\ pageInstances' = pageInstances
             /\ instances' = instances
             /\ last'.key \notin DOMAIN pageInstances'
             /\ last'.ctorRuns = 1
             /\ last'.result = 0]_vars

\* C8 witness: a constructor threw while other entries were cached.
C8_Witness ==
    /\ last.op = "createPage"
    /\ last.threw
    /\ DOMAIN pageInstances # {}

(* --------------------------- fixture claims ---------------------------- *)

\* C9: with the authenticatedPage fixture, once the test body has started a
\* logoutUser call follows the end of the body, whether the body passed or
\* failed, and logoutUser is never called before the body is over.
C9_LogoutFollowsBody ==
    /\ [](fixture = "authenticatedPage" /\ logoutCalls > 0
              => body \in {"passed", "failed"})
    /\ (fixture = "authenticatedPage" /\ body = "running") ~> (logoutCalls > 0)

\* C9 witness: logoutUser was called after a failed body.
C9_Witness ==
    /\ fixture = "authenticatedPage"
    /\ body = "failed"
    /\ logoutCalls = 1

\* C10: logoutUser never lets an error out: whatever its visibility check,
\* click or URL wait raises is caught and logged as a warning, so the outcome
\* of a test whose body ran with authenticatedPage is the body's result.
C10_TeardownNeverFailsTest ==
    /\ error # "logoutUser"
    /\ logout.raised => logout.warned
    /\ (fixture = "authenticatedPage" /\ fpc = "Terminal" /\ body # "notStarted")
          => (outcome = body /\ error = "none")

\* C10 witness: the teardown's logout failed after a passed body.
C10_Witness ==
    /\ fixture = "authenticatedPage"
    /\ fpc = "Terminal"
    /\ body = "passed"
    /\ logout.raised
    /\ logout.warned
    /\ outcome = "passed"

\* C11: in authenticatedPage the check isUserLoggedIn runs after loginUser
\* has returned and before the body; when it finds no logged-in indicator the
\* setup throws 'Failed to authenticate user before test', the test fails and
\* its body is never executed; a body runs only after the check returned true.
C11_CheckGuardsBody ==
    /\ isLoggedIn # "unset" => "loginUser" \in done
    /\ isLoggedIn = "false"
          => /\ error = "Failed to authenticate user before test"
             /\ body = "notStarted"
             /\ fpc = "Terminal"
             /\ outcome = "failed"
    /\ (baseFixture(fixture) = "authenticatedPage" /\ body # "notStarted")
          => isLoggedIn = "true"

\* C11 witness: loginUser returned with a session, the indicator was not
\* found and the test ended without its body.
C11_Witness ==
    /\ fixture = "authenticatedPage"
    /\ session
    /\ isLoggedIn = "false"
    /\ fpc = "Terminal"

\* C12: for each of the six fixtures, an error thrown by a setup step (login,
\* navigation, factory call, dashboard wait or validation) aborts the test:
\* the test is reported failed and its body never runs; a body runs only
\* when every setup step of its fixture has returned.
C12_SetupErrorAbortsTest ==
    /\ error # "none" => body = "notStarted"
    /\ (error # "none" /\ fpc = "Terminal") => outcome = "failed"
    /\ body # "notStarted" => setupSteps(fixture) \subseteq done

\* C12 witness: the dashboard wait of dashboardPage threw after
\* authenticatedPage was set up, and the test was reported failed.
C12_Witness ==
    /\ fixture = "dashboardPage"
    /\ error = "waitForDashboardLoad"
    /\ isLoggedIn = "true"
    /\ body = "notStarted"
    /\ fpc = "Terminal"
    /\ outcome = "failed"

\* C13: whenever the body starts with unauthenticatedPage, whatever the
\* session was before the setup, no user is authenticated and the page is on
\* the login screen; the setup called logoutUser before it navigated to
\* /login and did not fail on account of the logout.
C13_UnauthenticatedBodyStartsLoggedOut ==
    [][(fixture = "unauthenticatedPage" /\ body = "notStarted" /\ body' = "running")
          => /\ ~session'
             /\ url' = LoginUrl
             /\ {"logoutUser", "goto"} \subseteq done'
             /\ error' = "none"]_vars

\* The authentication fixture function of the test: 0 Uninitialized,
\* 1 Setting up, 2 Ready (suspended in use), 3 Tearing down, 4 Terminal.
basePhase ==
    CASE fpc = "Uninitialized" -> 0
      [] fpc = "Terminal" -> 4
      [] fpc \in {"createPage", "loginPage.goto", "waitForDashboardLoad",
                  "validateDashboard", "use"} -> 2
      [] fpc \in {"logoutUser.isVisible", "logoutUser.click", "logoutUser.toHaveURL"}
            -> IF baseFixture(fixture) = "authenticatedPage" THEN 3 ELSE 1
      [] OTHER -> 1

\* The derived fixture function of the test, which has no statement after
\* use(): 0 until the page is handed to it, 1 Setting up, 2 Ready, 4 Terminal.
derivedPhase ==
    CASE fpc \in {"createPage", "loginPage.goto", "waitForDashboardLoad",
                  "validateDashboard"} -> 1
      [] fpc = "use" -> 2
      [] basePhase < 2 -> 0
      [] OTHER -> 4

\* The test body: 0 notStarted, 1 running, 2 over.
bodyPhase == CASE body = "notStarted" -> 0 [] body = "running" -> 1 [] OTHER -> 2

C15_DerivedFixtureYieldsWhenReady ==
    [][(body = "notStarted" /\ body' = "running")
          => /\ fixture = "loginPage"
                   => /\ {"logoutUser", "goto", "createPage", "loginPage.goto"}
                            \subseteq done'
                      /\ po' \in 1..Len(instances')
                      /\ instances'[po'] = [cls |-> "LoginPage", page |-> test]
                      /\ url' = LoginUrl
             /\ fixture = "dashboardPage"
                   => /\ {"loginUser", "isUserLoggedIn", "createPage",
                          "waitForDashboardLoad"} \subseteq done'
                      /\ isLoggedIn' = "true"
                      /\ po' \in 1..Len(instances')
                      /\ instances'[po'] = [cls |-> "DashboardPage", page |-> test]
                      /\ session']_vars

\* C15 witness: the body of a later test of the worker runs with a loginPage
\* whose LoginPage object was built for this test's page.
C15_Witness ==
    /\ fixture = "loginPage"
    /\ body = "running"
    /\ test > 1
    /\ po \in 1..Len(instances)
    /\ instances[po].page = test

\* The URLs the pattern /dashboard|home|\/$/ matches.
C16_ClaimedUrls ==
    {u \in ScreenUrls \cup LandingUrls :
        LET s == urlChars[u] IN
        \/ Contains(s, <<"d", "a", "s", "h", "b", "o", "a", "r", "d">>)
        \/ Contains(s, <<"h", "o", "m", "e">>)
        \/ s[Len(s)] = "/"}

\* C16 as stated: whenever the setup of authenticatedPage succeeds, the URL
\* matches /dashboard|home|\/$/ and the indicator was found visible when the
\* body starts.
C16_ReadyOnClaimedUrl ==
    [][(fixture = "authenticatedPage" /\ body = "notStarted" /\ body' = "running")
          => (url' \in C16_ClaimedUrls /\ isLoggedIn' = "true")]_vars

\* C16 amended: whenever the setup of authenticatedPage succeeds, the URL
\* matches /\/$|dashboard|home|main/, the pattern loginUser waits for (it
\* ends in '/' or contains 'dashboard', 'home' or 'main'), and the indicator
\* was found visible by the check that precedes the body.
C16_ReadyOnPostLoginUrl ==
    [][(fixture = "authenticatedPage" /\ body = "notStarted" /\ body' = "running")
          => /\ url' \in C16_ClaimedUrls \cup {MainUrl}
             /\ url' \notin {BlankUrl, LoginUrl}
             /\ isLoggedIn' = "true"
             /\ session']_vars

\* C16 witness: the body of an authenticatedPage test is running on the URL
\* that contains 'main', the indicator having been found.
C16_Witness ==
    /\ fixture = "authenticatedPage"
    /\ body = "running"
    /\ url = MainUrl
    /\ isLoggedIn = "true"
    /\ logoutCalls = 0

(* -------------------------- generator claims --------------------------- *)

\* s is a string of ten decimal digits whose first digit is 9.
TenDigitsFromNine(s) ==
    /\ Len(s) = 10
    /\ \A j \in 1..Len(s) : \E d \in 1..Len(DigitChars) : s[j] = DigitChars[d]
    /\ s[1] = "9"

\* o is an override object with an email property and nothing else.
OnlyEmail(o) ==
    /\ o.email # Undefined
    /\ o.firstName = Undefined
    /\ o.lastName = Undefined
    /\ o.contactNumber = Undefined
    /\ o.permissionGroup = Undefined
    /\ o.userStatus = Undefined

C18_PresentFieldsKept ==
    (call.returned /\ call.fn = "generateUserData")
        => /\ call.args.firstName # Undefined => ret.firstName = call.args.firstName[1]
           /\ call.args.lastName # Undefined => ret.lastName = call.args.lastName[1]
           /\ call.args.email # Undefined => ret.email = call.args.email[1]
           /\ call.args.contactNumber # Undefined
                 => ret.contactNumber = call.args.contactNumber[1]
           /\ call.args.permissionGroup # Undefined
                 => ret.permissionGroup = call.args.permissionGroup
           /\ call.args.userStatus # Undefined => ret.userStatus = call.args.userStatus[1]
           /\ (ret.userStatus = <<"A", "c", "t", "i", "v", "e">>)
                 <=> (call.args.userStatus = Undefined)

\* C19: for every draw the contact number is a string of exactly ten decimal
\* digits whose first digit is 9, both from generatePhilippineContactNumber
\* and from the users-admin test's Math.floor(9000000000 + r * 999999999).
C19_ContactNumberFormat ==
    (call.returned /\ call.fn \in {"generatePhilippineContactNumber", "randomPhone"})
        => TenDigitsFromNine(ret)

\* C19 witness: the users-admin test drew the largest value below one.
C19_Witness ==
    /\ call.returned
    /\ call.fn = "randomPhone"
    /\ call.args[1] = RandDen
    /\ ret[10] = "8"

\* C20: for a first and a last name of the pools generateEmail returns
\* local@domain with exactly one '@': the local part is not empty, holds no
\* upper-case letter and no whitespace and ends in three digits, and the
\* domain is one of the five domains.
C20_EmailWellFormed ==
    (/\ call.returned
     /\ call.fn = "generateEmail"
     /\ call.args[1] # Undefined
     /\ call.args[2] # Undefined)
        => LET ats == {j \in 1..Len(ret) : ret[j] = "@"}
               at == CHOOSE j \in ats : TRUE
               local == SubSeq(ret, 1, at - 1)
               domain == SubSeq(ret, at + 1, Len(ret))
           IN /\ Cardinality(ats) = 1
              /\ Len(local) > 3
              /\ \A j \in 1..Len(local) :
                    /\ ~IsSpace(local[j])
                    /\ \A n \in 1..Len(UpperCase) : local[j] # UpperCase[n]
              /\ \A j \in (Len(local) - 2)..Len(local) :
                    \E d \in 1..Len(DigitChars) : local[j] = DigitChars[d]
              /\ \E n \in 1..Len(domains) : domain = domains[n]

\* C20 witness: generateEmail was called with the last name 'Dela Cruz'.
C20_Witness ==
    /\ call.returned
    /\ call.fn = "generateEmail"
    /\ call.args[1] # Undefined
    /\ call.args[2] = Some(<<"D", "e", "l", "a", " ", "C", "r", "u", "z">>)
    /\ Len(ret) > 0

(* ---------------------- claims: page-object helpers -------------------- *)

\* C21
\* Every call of isElementVisible returns instead of throwing: true when the
\* locator resolves to one displayed element of an open page, false on a
\* time-out and on every other failure of the check; the call leaves the
\* document and the factory's cache as they were.
C21_IsElementVisibleNeverThrows ==
    [][\A b \in Banners :
          IsElementVisible(b) =>
             /\ ~helper'.threw
             /\ helper'.value = (IF dom[b] = "visible" /\ ~dom.closed
                                 THEN "true" ELSE "false")
             /\ dom' = dom
             /\ pageInstances' = pageInstances
             /\ instances' = instances]_vars

\* C21 witness
\* isElementVisible returned false although the check failed with something
\* other than a time-out.
C21_Witness ==
    /\ helper.fn = "isElementVisible"
    /\ helper.check \in {"strict", "closed"}
    /\ helper.value = "false"
    /\ ~helper.threw

\* C22
\* A finished banner reader has not thrown, and has returned the banner's text
\* or the empty string.
C22_ReadersNeverThrow ==
    (helper.fn \in {"getErrorMessage", "getSuccessMessage"} /\ helper.pc = "idle")
        => (~helper.threw /\ helper.value \in {"", bannerText(helper.banner)})

(* --------------------- claims: configuration --------------------------- *)

\* The variables the documentation of getEnvironmentConfig calls required.
requiredNames(variant) ==
    IF variant = "uat" THEN {"BASE_URL", "TEST_EMAIL", "TEST_PASSWORD"}
    ELSE {"BASE_URL", "ADMIN_BASE_URL"}

\* C23
\* getEnvironmentConfig throws exactly when a required environment variable
\* is missing; when it returns, an unset variable holds its default.
C23_ThrowsOnMissingRequired ==
    (call.fn = "getEnvironmentConfig" /\ call.returned) =>
        /\ ret.threw <=> (\E n \in requiredNames(call.args[1]) : env[n] = Undefined)
        /\ (~ret.threw /\ env["NODE_ENV"] = Undefined) =>
              ret.value.nodeEnv \in {"test", "development"}
        /\ (~ret.threw /\ env["TEST_TIMEOUT"] = Undefined) =>
              ret.value.testTimeout = Num(30000)

(* ------------------ claims: two fixtures in one test ------------------- *)

\* C24
\* When the body of a test that declares loginPage and dashboardPage starts,
\* the page shows the login screen and no user is authenticated.
C24_PairBodyStartsOnLoginScreen ==
    (fixture \in PairOrders /\ fpc = [phase |-> "body", i |-> 1])
        => (url = LoginUrl /\ ~session)

(* ------------------ claims: interleaved createPage --------------------- *)

\* The number of constructor runs made for the key k.
ctorRunsFor(k) == Cardinality({i \in DOMAIN born : born[i].key = k})

\* C25
\* No task is ever suspended inside createPage, and the tasks that called
\* createPage with the same class at the same URL all received the same
\* instance, for which the constructor ran once; the cache holds that instance.
C25_CreatePageAtomic ==
    /\ \A t \in DOMAIN tasks : tasks[t].pc \in {"await", "has", "done"}
    /\ \A t \in DOMAIN tasks :
          tasks[t].pc = "done" =>
             /\ ctorRunsFor(tasks[t].key) = 1
             /\ pageInstances[tasks[t].key] = tasks[t].result
    /\ \A t1, t2 \in DOMAIN tasks :
          (tasks[t1].pc = "done" /\ tasks[t2].pc = "done" /\ tasks[t1].key = tasks[t2].key)
             => tasks[t1].result = tasks[t2].result

\* C25 witness
\* Two tasks were both about to call createPage with the same class at the
\* same URL and both have returned; one of them constructed.
C25_Witness ==
    \E t1, t2 \in DOMAIN tasks :
        /\ t1 # t2
        /\ tasks[t1].pc = "done" /\ tasks[t2].pc = "done"
        /\ tasks[t1].key = tasks[t2].key
        /\ ~tasks[t1].hit /\ tasks[t2].hit

\* C26
\* When loginUser completed for the configured account, the check that
\* follows found the user logged in and the authentication-setup error was
\* not raised.
C26_LoginImpliesCheckPasses ==
    (fixture \in Fixtures /\ baseFixture(fixture) = "authenticatedPage"
        /\ {"loginUser", "isUserLoggedIn"} \subseteq done)
        => (isLoggedIn = "true" /\ error # "Failed to authenticate user before test")

(* ------------------ claims: createPageByUrl, copies -------------------- *)

\* C27
\* A call of createPageByUrl that returned gave, at a URL containing '/login',
\* the LoginPage cached under that URL (also when the URL contains
\* '/dashboard' as well); else, at a URL containing '/dashboard' or equal to
\* the context's base URL, the DashboardPage cached under that URL; else a
\* BasePage built by this very call.  No BasePage is ever in the cache.
C27_DispatchByUrl ==
    /\ \A k \in DOMAIN pageInstances : instances[pageInstances[k]].cls # "BasePage"
    /\ (last.op = "createPageByUrl" /\ ~last.threw) =>
          LET hasLogin == url \in {LoginUrl, LoginNextUrl}
              hasDashboard == url \in {DashboardUrl, LoginNextUrl}
              cached(cls) ==
                  /\ last.cls = cls
                  /\ instances[last.result].cls = cls
                  /\ (cls \o "-" \o url) \in DOMAIN pageInstances
                  /\ pageInstances[cls \o "-" \o url] = last.result
          IN
          CASE hasLogin -> cached("LoginPage")
            [] ~hasLogin /\ (hasDashboard \/ context.baseURL = <<url>>) ->
                  cached("DashboardPage")
            [] OTHER ->
                  /\ instances[last.result].cls = "BasePage"
                  /\ last.ctorRuns = 1
                  /\ last.result = Len(instances)
                  /\ last.result \notin Range(pageInstances)

\* C27 witness
\* createPageByUrl returned a LoginPage at a URL that contains both '/login'
\* and '/dashboard', with a BasePage built earlier in the same process.
C27_Witness ==
    /\ last.op = "createPageByUrl"
    /\ url = LoginNextUrl
    /\ ~last.threw
    /\ last.cls = "LoginPage"
    /\ \E i \in DOMAIN instances : instances[i].cls = "BasePage"

\* C28
\* removePageInstance deletes the entry of its key and nothing else;
\* createPage never returns an instance that was removed; getCachedInstances
\* returns the entries of the cache, and changing the returned Map leaves the
\* factory's cache as it was.
C28_RemoveExactCopyDetached ==
    /\ [][\A c \in Classes, u \in Urls :
             RemovePageInstance(c, u) =>
                /\ DOMAIN pageInstances' = DOMAIN pageInstances \ {c \o "-" \o u}
                /\ \A k \in DOMAIN pageInstances' : pageInstances'[k] = pageInstances[k]
                /\ instances' = instances]_vars
    /\ [][(\E c \in Classes, t \in BOOLEAN : CreatePage(c, t)) =>
             (last'.threw \/ (last'.result \notin removed
                              /\ pageInstances'[last'.key] = last'.result))]_vars
    /\ [][GetCachedInstances =>
             (copy'[1].entries = pageInstances /\ pageInstances' = pageInstances)]_vars
    /\ [][(\E k \in CopyKeys : CopyMutates(k)) => pageInstances' = pageInstances]_vars

\* C28 witness
\* An entry was removed and created again, and the test changed the Map it
\* got from getCachedInstances, which now differs from the cache.
C28_Witness ==
    /\ removed # {}
    /\ \E k \in DOMAIN pageInstances : pageInstances[k] \notin removed
                                       /\ born[pageInstances[k]].key \in
                                             {born[i].key : i \in removed}
    /\ copy # Undefined
    /\ copy[1].entries # pageInstances
    /\ last.op = "copy.delete"

(* --------------------------- claims: forms ----------------------------- *)

\* C29
\* A call of toggleRememberMe(checked) that returns leaves the checkbox in the
\* requested state and has clicked once when the state differed and not at
\* all otherwise; isRememberMeChecked() right after it returns `checked`; a
\* second call with the same argument changes nothing and does not click.
C29_ToggleReachesRequestedState ==
    /\ [][\A checked \in BOOLEAN :
             (ToggleRememberMe(checked) /\ ~helper'.threw) =>
                /\ dom'.checked = checked
                /\ helper'.clicks = (IF dom.checked = checked THEN 0 ELSE 1)
                /\ dom'.fields = dom.fields
                /\ (helper.fn = "toggleRememberMe" /\ helper.flag = checked
                    /\ ~helper.threw) => (dom' = dom /\ helper'.clicks = 0)]_vars
    /\ [][(IsRememberMeChecked /\ helper.fn = "toggleRememberMe" /\ ~helper.threw)
             => (~helper'.threw /\ helper'.flag = helper.flag)]_vars

\* C29 witness
\* toggleRememberMe(false) was called twice in a row on a checked box: the
\* second call returned without a click and the box is unchecked.
C29_Witness ==
    /\ helper.fn = "toggleRememberMe"
    /\ helper.repeat
    /\ ~helper.flag
    /\ ~helper.threw
    /\ helper.clicks = 0
    /\ ~dom.checked

keptUnchanged(f, v) ==
    /\ f = "phone_number" => Len(v) <= PhoneMaxLength
    /\ dom.attrs[f].type = "email" => (v = <<>> \/ (v[1] # " " /\ v[Len(v)] # " "))

====
